---------------------------- MODULE Spec2Model ----------------------------
(***************************************************************************)
(* A model of rust-umbral (threshold proxy re-encryption).                 *)
(*                                                                         *)
(* The elliptic curve is scaled down to a cyclic group of prime order Q:   *)
(* a point is written as its discrete logarithm to the base g (so g is 1,  *)
(* the identity is 0, point addition is addition mod Q and scalar          *)
(* multiplication is multiplication mod Q); a scalar is a number mod Q.    *)
(* The external primitives are modelled by their contracts:                *)
(*   - the scalar digest is one member of a family of deterministic        *)
(*     functions, the member being fixed by `hk` in the initial state;     *)
(*   - ChaCha20-Poly1305 adds a keystream byte by byte and appends a tag   *)
(*     of TagSize symbolic bytes that records (key, nonce, aad, text);     *)
(*   - an ECDSA signature records its signer, its message and its nonce.   *)
(* A byte string is a sequence of numbers; a buffer handed to the AEAD is  *)
(* a sequence of one-element tuples <<b>> (data bytes) and of tag bytes.   *)
(* A Rust panic (unwrap of None, assert!) is the outcome "Panic".          *)
(***************************************************************************)
EXTENDS Integers, Sequences, FiniteSets, TLC

VARIABLES
    hk,                  \* which member of the digest family is in use
    pc,                  \* the position of the session
    delegating_privkey,  \* Alice's secret scalar
    plain_data,          \* the plaintext handed to encrypt
    capsule,             \* the capsule returned by encrypt / encrypt_in_place
    ciphertext,          \* the Ciphertext returned by encrypt
    buffer,              \* the caller-owned buffer of the in-place calls
    out,                 \* the value returned by the last decryption call
    checked,             \* the value returned by the last verify call
    receiving_privkey,   \* Bob's secret scalar
    signing_privkey,     \* the secret scalar that signs the KFrags
    threshold,           \* t of the delegation
    num_kfrags,          \* N of the delegation
    kfrags,              \* the KFrags generate_kfrags returned
    cfrags,              \* the CFrags the proxies returned, one per KFrag
    presented,           \* the CFrags handed to verify or to decryption
    decrypting_privkey,  \* the secret scalar handed to decrypt_reencrypted
    objects,             \* the CapsuleWithFrags objects of the wasm binding
    call_args            \* the other arguments of the last call

kemVars == <<plain_data, capsule, ciphertext, buffer>>
keyVars == <<receiving_privkey, signing_privkey, threshold, num_kfrags>>
fragVars == <<kfrags, cfrags, presented, decrypting_privkey>>
vars == <<hk, pc, delegating_privkey, kemVars, out, checked, keyVars, fragVars, objects,
          call_args>>

(***************************************************************************)
(* Sizes fixed by the program and its libraries.                           *)
(***************************************************************************)
Q == 7
CurveCompressedPointSize == 33
CurveScalarSize == 32
KdfSize == 32
NonceSize == 12
TagSize == 16
ByteMod == 256

(***************************************************************************)
(* Bounds of the model.                                                    *)
(***************************************************************************)
MaxHashKey == 1
MaxMsgLen == 2

(***************************************************************************)
(* curve.rs: scalars and points.                                           *)
(***************************************************************************)
CurveScalar == 0 .. (Q - 1)
CurvePoint == 0 .. (Q - 1)
NonZeroScalar == 1 .. (Q - 1)
Identity == 0
Generator == 1

SAdd(a, b) == (a + b) % Q
SSub(a, b) == (a + Q - (b % Q)) % Q
SMul(a, b) == (a * b) % Q
\* Scalar::invert(): None for zero, which the callers unwrap.
invert_is_some(a) == a % Q # 0
invert(a) == IF a % Q = 0 THEN 0 ELSE CHOOSE y \in NonZeroScalar : (a * y) % Q = 1

PAdd(p, r) == (p + r) % Q
PMul(p, s) == (p * s) % Q

Zeros(n) == [i \in 1 .. n |-> 0]

\* The affine x coordinate: a point and its negation share it.
XCoord(p) == IF 2 * p < Q THEN p ELSE Q - p
SignByte(p) == IF 2 * p < Q THEN 2 ELSE 3

\* ProjectivePoint::to_affine() is None for the identity.
to_affine_is_some(p) == p # Identity

\* point_to_bytes: the compressed form, a sign byte and the big-endian x.
point_to_bytes(p) ==
    <<SignByte(p)>> \o Zeros(CurveCompressedPointSize - 2) \o <<XCoord(p)>>

\* scalar_to_bytes: big-endian, fixed width.
scalar_to_bytes(s) == Zeros(CurveScalarSize - 1) \o <<s>>


(***************************************************************************)
(* Byte strings.                                                           *)
(***************************************************************************)
RECURSIVE SeqsUpTo(_, _)
SeqsUpTo(S, n) ==
    IF n = 0 THEN {<<>>}
    ELSE LET shorter == SeqsUpTo(S, n - 1)
         IN shorter \cup {Append(s, b) : s \in {t \in shorter : Len(t) = n - 1}, b \in S}

Take(s, n) == SubSeq(s, 1, n)
Drop(s, n) == SubSeq(s, n + 1, Len(s))

\* A buffer holds one-element tuples; Wrap and Unwrap convert a byte string.
Wrap(bytes) == [i \in 1 .. Len(bytes) |-> <<bytes[i]>>]
Unwrap(buf) == [i \in 1 .. Len(buf) |-> buf[i][1]]

(***************************************************************************)
(* random_oracles.rs: hash_to_scalar.  The digest absorbs the tag          *)
(* "hash_to_curvebn", then the customization bytes, then every point in    *)
(* compressed form, and is reduced to a scalar.                            *)
(***************************************************************************)
HashTag == <<104, 50, 99>>
NON_INTERACTIVE == <<78, 79, 78>>
X_COORDINATE == <<88, 95, 67>>

RECURSIVE Absorb(_, _)
Absorb(acc, bytes) ==
    IF bytes = <<>> THEN acc
    ELSE Absorb((acc * 31 + Head(bytes) + 1) % 1009, Tail(bytes))

\* A 33-byte or 32-byte block enters the digest through its first and its
\* last byte: the bytes between are zero for every value of the small group.
Block(bytes) == <<bytes[1], bytes[Len(bytes)]>>

RECURSIVE Blocks(_)
Blocks(points) ==
    IF points = <<>> THEN <<>>
    ELSE Block(point_to_bytes(Head(points))) \o Blocks(Tail(points))

\* Scalar::from_digest
from_digest(acc) == acc % Q

\* The digest over a chain of already encoded parts.
ScalarDigest(parts) == from_digest(Absorb(hk + 1, HashTag \o parts))

hash_to_scalar(crypto_items, customization_string) ==
    ScalarDigest(customization_string \o Blocks(crypto_items))

\* Every point a digest is fed must have an affine form.
AllAffine(points) == \A i \in 1 .. Len(points) : to_affine_is_some(points[i])

(***************************************************************************)
(* dem.rs: the key derivation and the AEAD.                                *)
(***************************************************************************)
\* HKDF-Expand of the seed into KdfSize bytes.
kdf(seed) ==
    [i \in 1 .. KdfSize |-> (seed[1] * 31 + seed[Len(seed)] * (i + 7) + i) % ByteMod]

\* UmbralDEM::new: the cipher is its key.
UmbralDEM_new(key_seed) == kdf(key_seed)

Keystream(key, nonce, i) ==
    (key[((i - 1) % KdfSize) + 1] + nonce[((i - 1) % NonceSize) + 1] + i) % ByteMod

\* The ciphertext bytes of `text` (a buffer) under (key, nonce).
StreamEncrypt(key, nonce, text) ==
    [i \in 1 .. Len(text) |-> <<(text[i][1] + Keystream(key, nonce, i)) % ByteMod>>]

StreamDecrypt(key, nonce, text) ==
    [i \in 1 .. Len(text) |->
        <<(text[i][1] + ByteMod - Keystream(key, nonce, i)) % ByteMod>>]

\* The Poly1305 tag over (aad, ciphertext) under (key, nonce): TagSize
\* symbolic bytes, the first of which records what was authenticated.
Tag(key, nonce, aad, ct) ==
    [j \in 1 .. TagSize |-> IF j = 1 THEN <<j, key, nonce, aad, ct>> ELSE <<j, 0>>]

\* ChaCha20Poly1305::encrypt: ciphertext followed by the tag.
AeadEncrypt(key, nonce, aad, msg) ==
    LET ct == StreamEncrypt(key, nonce, msg)
    IN ct \o Tag(key, nonce, aad, ct)

\* ChaCha20Poly1305::decrypt: Err unless the tag verifies.
AeadDecrypt(key, nonce, aad, data) ==
    IF Len(data) < TagSize THEN [ok |-> FALSE, text |-> <<>>]
    ELSE LET ct == Take(data, Len(data) - TagSize)
             tag == Drop(data, Len(data) - TagSize)
         IN IF tag = Tag(key, nonce, aad, ct)
            THEN [ok |-> TRUE, text |-> StreamDecrypt(key, nonce, ct)]
            ELSE [ok |-> FALSE, text |-> <<>>]

\* UmbralDEM::encrypt: the Ciphertext struct keeps the nonce beside the data.
UmbralDEM_encrypt(key, data, authenticated_data, nonce) ==
    [nonce |-> nonce, data |-> AeadEncrypt(key, nonce, authenticated_data, data)]

\* UmbralDEM::decrypt: Some(plaintext) or None.
UmbralDEM_decrypt(key, ct, authenticated_data) ==
    LET r == AeadDecrypt(key, ct.nonce, authenticated_data, ct.data)
    IN IF r.ok THEN [tag |-> "Some", val |-> r.text] ELSE [tag |-> "None", val |-> <<>>]


\* A buffer that grows past its capacity.
extend_from_slice_unbounded(buf, slice) ==
    [ok |-> TRUE, buf |-> [buf EXCEPT !.bytes = @ \o slice]]

\* Buffer::extend_from_slice: Err when the capacity is exceeded.
extend_from_slice(buf, slice) ==
    IF Len(buf.bytes) + Len(slice) <= buf.cap
    THEN [ok |-> TRUE, buf |-> [buf EXCEPT !.bytes = @ \o slice]]
    ELSE [ok |-> FALSE, buf |-> buf]

\* An in-place encryption that appends the nonce before the tag.
UmbralDEM_encrypt_in_place_nonce_before_tag(key, buf, authenticated_data, nonce) ==
    LET ct == StreamEncrypt(key, nonce, buf.bytes)
        encrypted == [buf EXCEPT !.bytes = ct]
        res2 == extend_from_slice(encrypted, Wrap(nonce))
        result == extend_from_slice(res2.buf, Tag(key, nonce, authenticated_data, ct))
    IN IF ~res2.ok THEN [tag |-> "None", buf |-> res2.buf]
       ELSE IF ~result.ok THEN [tag |-> "None", buf |-> result.buf]
       ELSE [tag |-> "Some", buf |-> result.buf]

\* UmbralDEM::encrypt_in_place: encrypt, append the tag, append the nonce.
UmbralDEM_encrypt_in_place(key, buf, authenticated_data, nonce) ==
    LET ct == StreamEncrypt(key, nonce, buf.bytes)
        encrypted == [buf EXCEPT !.bytes = ct]
        result == extend_from_slice(encrypted, Tag(key, nonce, authenticated_data, ct))
        res2 == extend_from_slice(result.buf, Wrap(nonce))
    IN IF ~result.ok THEN [tag |-> "None", buf |-> result.buf]
       ELSE IF ~res2.ok THEN [tag |-> "None", buf |-> res2.buf]
       ELSE [tag |-> "Some", buf |-> res2.buf]

\* UmbralDEM::decrypt_in_place: the nonce is the last NonceSize bytes; the
\* subtraction buf_size - nonce_size and the slice panic on a shorter buffer.
UmbralDEM_decrypt_in_place(key, buf, authenticated_data) ==
    LET buf_size == Len(buf.bytes)
    IN IF buf_size < NonceSize THEN [tag |-> "Panic", buf |-> buf]
       ELSE LET nonce == Unwrap(Drop(buf.bytes, buf_size - NonceSize))
                truncated == Take(buf.bytes, buf_size - NonceSize)
                r == AeadDecrypt(key, nonce, authenticated_data, truncated)
            IN IF r.ok THEN [tag |-> "Some", buf |-> [buf EXCEPT !.bytes = r.text]]
               ELSE [tag |-> "None", buf |-> [buf EXCEPT !.bytes = truncated]]

(***************************************************************************)
(* params: the generator g and the point u.                                *)
(***************************************************************************)
ParamsU == 3

UmbralParameters_to_bytes == point_to_bytes(ParamsU)

(***************************************************************************)
(* keys.rs                                                                 *)
(***************************************************************************)
\* UmbralPrivateKey::new: the public key is the scalar times g.
get_pubkey(bn_key) == PMul(Generator, bn_key)

(***************************************************************************)
(* capsule.rs: the KEM.                                                    *)
(***************************************************************************)
NoCapsule == [point_e |-> Identity, point_v |-> Identity, signature |-> 0]

\* A serialization that writes V before E.
Capsule_to_bytes_v_before_e(c) ==
    UmbralParameters_to_bytes
        \o point_to_bytes(c.point_v)
        \o point_to_bytes(c.point_e)
        \o scalar_to_bytes(c.signature)

\* Capsule::to_bytes: the parameters, then E, V and s.
Capsule_to_bytes(c) ==
    UmbralParameters_to_bytes
        \o point_to_bytes(c.point_e)
        \o point_to_bytes(c.point_v)
        \o scalar_to_bytes(c.signature)

Capsule_to_bytes_panics(c) ==
    ~AllAffine(<<ParamsU, c.point_e, c.point_v>>)

\* A decoding that drops the sign byte.
bytes_to_point_ignoring_sign(bytes) ==
    IF Len(bytes) # CurveCompressedPointSize THEN [tag |-> "Panic", point |-> Identity]
    ELSE [tag |-> "Some", point |-> bytes[CurveCompressedPointSize]]

\* bytes_to_point: PublicKey::from_bytes(..).unwrap() panics unless the input
\* has the length and the sign byte of a compressed point; the point is None
\* when the x coordinate is not that of a curve point.
bytes_to_point(bytes) ==
    IF Len(bytes) # CurveCompressedPointSize THEN [tag |-> "Panic", point |-> Identity]
    ELSE IF bytes[1] \notin {2, 3} THEN [tag |-> "Panic", point |-> Identity]
    ELSE LET x == bytes[CurveCompressedPointSize]
             on_curve == /\ SubSeq(bytes, 2, CurveCompressedPointSize - 1)
                               = Zeros(CurveCompressedPointSize - 2)
                         /\ x \in NonZeroScalar /\ 2 * x < Q
         IN IF ~on_curve THEN [tag |-> "None", point |-> Identity]
            ELSE [tag |-> "Some", point |-> IF bytes[1] = 2 THEN x ELSE Q - x]

\* bytes_to_scalar: None unless the big-endian value is below the order.
bytes_to_scalar(bytes) ==
    LET in_range == /\ Len(bytes) = CurveScalarSize
                    /\ Take(bytes, CurveScalarSize - 1) = Zeros(CurveScalarSize - 1)
                    /\ bytes[CurveScalarSize] < Q
    IN IF in_range THEN [tag |-> "Some", scalar |-> bytes[CurveScalarSize]]
       ELSE [tag |-> "None", scalar |-> 0]

\* CapsuleSize: the parameters, two compressed points and a scalar.
CapsuleSize ==
    Len(UmbralParameters_to_bytes) + CurveCompressedPointSize
        + CurveCompressedPointSize + CurveScalarSize

\* Capsule::from_bytes: GenericArray::from_slice panics on another length,
\* and each of the four parts is unwrapped.  The parameters decode as the
\* point u does.
Capsule_from_bytes(bytes) ==
    IF Len(bytes) # CapsuleSize
    THEN [tag |-> "Panic", params |-> Identity, capsule |-> NoCapsule]
    ELSE LET params_size == Len(UmbralParameters_to_bytes)
             params == bytes_to_point(Take(bytes, params_size))
             rest == Drop(bytes, params_size)
             e == bytes_to_point(Take(rest, CurveCompressedPointSize))
             rest2 == Drop(rest, CurveCompressedPointSize)
             v == bytes_to_point(Take(rest2, CurveCompressedPointSize))
             sig == bytes_to_scalar(Drop(rest2, CurveCompressedPointSize))
         IN IF params.tag # "Some" \/ e.tag # "Some" \/ v.tag # "Some" \/ sig.tag # "Some"
            THEN [tag |-> "Panic", params |-> Identity, capsule |-> NoCapsule]
            ELSE [tag |-> "Some", params |-> params.point,
                  capsule |-> [point_e |-> e.point, point_v |-> v.point,
                               signature |-> sig.scalar]]

\* Capsule::verify: s*g == V + h*E with h the digest of (E, V).
Capsule_verify(c) ==
    LET h == ScalarDigest(Blocks(<<c.point_e, c.point_v>>))
    IN PMul(Generator, c.signature) = PAdd(c.point_v, PMul(c.point_e, h))

\* An encapsulation whose signature leaves the digest out: s = u + r.
Capsule_from_pubkey_without_digest(alice_pubkey, priv_r, priv_u) ==
    LET pub_r == PMul(Generator, priv_r)
        pub_u == PMul(Generator, priv_u)
        shared_key == PMul(alice_pubkey, SAdd(priv_r, priv_u))
    IN [panic |-> ~AllAffine(<<pub_r, pub_u, shared_key>>),
        capsule |-> [point_e |-> pub_r, point_v |-> pub_u,
                     signature |-> SAdd(priv_u, priv_r)],
        key_seed |-> point_to_bytes(shared_key)]

\* Capsule::from_pubkey with the two scalars the random source gave.
Capsule_from_pubkey(alice_pubkey, priv_r, priv_u) ==
    LET pub_r == PMul(Generator, priv_r)
        pub_u == PMul(Generator, priv_u)
        h == ScalarDigest(Blocks(<<pub_r, pub_u>>))
        s == SAdd(priv_u, SMul(priv_r, h))
        shared_key == PMul(alice_pubkey, SAdd(priv_r, priv_u))
    IN [panic |-> ~AllAffine(<<pub_r, pub_u, shared_key>>),
        capsule |-> [point_e |-> pub_r, point_v |-> pub_u, signature |-> s],
        key_seed |-> point_to_bytes(shared_key)]

\* An opening that leaves V out: the seed is E * sk.
Capsule_open_original_without_v(c, private_key) ==
    LET shared_key == PMul(c.point_e, private_key)
    IN [panic |-> ~to_affine_is_some(shared_key),
        key_seed |-> point_to_bytes(shared_key)]

\* Capsule::open_original: the seed is (E + V) * sk.
Capsule_open_original(c, private_key) ==
    LET shared_key == PMul(PAdd(c.point_e, c.point_v), private_key)
    IN [panic |-> ~to_affine_is_some(shared_key),
        key_seed |-> point_to_bytes(shared_key)]

(***************************************************************************)
(* pre.rs: the public API.                                                 *)
(***************************************************************************)
encrypt(alice_pubkey, plaintext, priv_r, priv_u, nonce) ==
    LET kem == Capsule_from_pubkey(alice_pubkey, priv_r, priv_u)
        dem == UmbralDEM_new(kem.key_seed)
        capsule_bytes == Capsule_to_bytes(kem.capsule)
    IN [panic |-> kem.panic \/ Capsule_to_bytes_panics(kem.capsule),
        ciphertext |-> UmbralDEM_encrypt(dem, plaintext, capsule_bytes, nonce),
        capsule |-> kem.capsule]

encrypt_in_place(buf, alice_pubkey, priv_r, priv_u, nonce) ==
    LET kem == Capsule_from_pubkey(alice_pubkey, priv_r, priv_u)
        dem == UmbralDEM_new(kem.key_seed)
        capsule_bytes == Capsule_to_bytes(kem.capsule)
        result == UmbralDEM_encrypt_in_place(dem, buf, capsule_bytes, nonce)
    IN IF kem.panic \/ Capsule_to_bytes_panics(kem.capsule)
       THEN [tag |-> "Panic", capsule |-> NoCapsule, buf |-> buf]
       ELSE IF result.tag = "Some"
       THEN [tag |-> "Some", capsule |-> kem.capsule, buf |-> result.buf]
       ELSE [tag |-> "None", capsule |-> NoCapsule, buf |-> result.buf]

decrypt_original(ct, c, decrypting_key) ==
    LET opened == Capsule_open_original(c, decrypting_key)
        dem == UmbralDEM_new(opened.key_seed)
    IN IF opened.panic \/ Capsule_to_bytes_panics(c)
       THEN [tag |-> "Panic", val |-> <<>>]
       ELSE UmbralDEM_decrypt(dem, ct, Capsule_to_bytes(c))

decrypt_original_in_place(buf, c, decrypting_key) ==
    LET opened == Capsule_open_original(c, decrypting_key)
        dem == UmbralDEM_new(opened.key_seed)
    IN IF opened.panic \/ Capsule_to_bytes_panics(c)
       THEN [tag |-> "Panic", buf |-> buf]
       ELSE UmbralDEM_decrypt_in_place(dem, buf, Capsule_to_bytes(c))

(***************************************************************************)
(* keys.rs: signatures.  A signature records who signed, the prehash of   *)
(* the message and the nonce k of the signing call.                        *)
(***************************************************************************)
NonZeroByte(e) == e[2] # 0

\* Sha3_256 of a message: the positions and values of its nonzero bytes,
\* with its length, which determine the message.
Sha3_256(message) ==
    <<<<0, Len(message)>>>> \o
        SelectSeq([i \in 1 .. Len(message) |-> <<i, message[i]>>], NonZeroByte)

\* UmbralPrivateKey::sign with the nonce k the random source gave.
UmbralPrivateKey_sign(bn_key, message, k) ==
    [signer |-> get_pubkey(bn_key), hashed |-> Sha3_256(message), k |-> k]

\* UmbralPublicKey::verify
UmbralPublicKey_verify(point_key, message, signature) ==
    /\ signature.signer = point_key
    /\ signature.hashed = Sha3_256(message)

\* to_hash_seed / point_to_hash_seed: the compressed form of the point.
point_to_hash_seed(p) == point_to_bytes(p)

(***************************************************************************)
(* KFrag generation (the t-of-N Shamir split of the delegating key).       *)
(***************************************************************************)
\* Horner's rule over the coefficients f[1] + f[2]*x + ...
RECURSIVE poly_eval(_, _)
poly_eval(coeffs, x) ==
    IF coeffs = <<>> THEN 0
    ELSE SAdd(Head(coeffs), SMul(x, poly_eval(Tail(coeffs), x)))

\* The digest of (precursor, pk_bob, dh) and a label, then an optional id.
NonInteractiveDigest(precursor, pub_key, dh_point) ==
    ScalarDigest(Blocks(<<precursor, pub_key, dh_point>>) \o NON_INTERACTIVE)

ShareIndexDigest(precursor, pub_key, dh_point, kfrag_id) ==
    ScalarDigest(Blocks(<<precursor, pub_key, dh_point>>) \o X_COORDINATE
                    \o Block(scalar_to_bytes(kfrag_id)))

\* The message signature_for_bob signs; CapsuleFrag::verify rebuilds it.
kfrag_validity_message(kfrag_id, delegating_pubkey, receiving_pubkey, u1, precursor) ==
    scalar_to_bytes(kfrag_id)
        \o point_to_hash_seed(delegating_pubkey)
        \o point_to_hash_seed(receiving_pubkey)
        \o point_to_hash_seed(u1)
        \o point_to_hash_seed(precursor)

\* The message signature_for_proxy signs: the keys the flags select, and a
\* two-byte mode tag saying which were included.
kfrag_proxy_message(kfrag_id, commitment, precursor, maybe_delegating, maybe_receiving) ==
    scalar_to_bytes(kfrag_id)
        \o point_to_hash_seed(commitment)
        \o point_to_hash_seed(precursor)
        \o <<IF maybe_delegating = <<>> THEN 0 ELSE 1,
             IF maybe_receiving = <<>> THEN 0 ELSE 1>>
        \o (IF maybe_delegating = <<>> THEN <<>> ELSE point_to_hash_seed(maybe_delegating[1]))
        \o (IF maybe_receiving = <<>> THEN <<>> ELSE point_to_hash_seed(maybe_receiving[1]))

\* The factory: the precursor X_a, d and the polynomial with f(0) = sk_a / d.
KFragFactory_new(delegating_sk, receiving_pubkey, x_a, random_coefficients) ==
    LET precursor == PMul(Generator, x_a)
        dh_point == PMul(receiving_pubkey, x_a)
        d == NonInteractiveDigest(precursor, receiving_pubkey, dh_point)
    IN [panic |-> \/ ~AllAffine(<<precursor, receiving_pubkey, dh_point>>)
                  \/ ~invert_is_some(d),
        precursor |-> precursor,
        dh_point |-> dh_point,
        d |-> d,
        coefficients |-> <<SMul(delegating_sk, invert(d))>> \o random_coefficients]

\* One KFrag: the share of the polynomial at the share index of its id.
KFragFactory_make(factory, delegating_sk, receiving_pubkey, signing_sk, sign_delegating_key, sign_receiving_key, kfrag_id, k) ==
    LET share_index == ShareIndexDigest(factory.precursor, receiving_pubkey,
                                        factory.dh_point, kfrag_id)
        rk == poly_eval(factory.coefficients, share_index)
        commitment == PMul(ParamsU, rk)
        delegating_pubkey == get_pubkey(delegating_sk)
    IN [panic |-> ~AllAffine(<<commitment, delegating_pubkey>>),
        kfrag |->
          [id |-> kfrag_id,
           key |-> rk,
           precursor |-> factory.precursor,
           commitment |-> commitment,
           signature_for_proxy |->
               UmbralPrivateKey_sign(signing_sk,
                   kfrag_proxy_message(kfrag_id, commitment, factory.precursor,
                       IF sign_delegating_key THEN <<delegating_pubkey>> ELSE <<>>,
                       IF sign_receiving_key THEN <<receiving_pubkey>> ELSE <<>>), k),
           delegating_key_signed |-> sign_delegating_key,
           receiving_key_signed |-> sign_receiving_key,
           signature_for_bob |->
               UmbralPrivateKey_sign(signing_sk,
                   kfrag_validity_message(kfrag_id, delegating_pubkey, receiving_pubkey,
                                          commitment, factory.precursor), k)]]

\* generate_kfrags: one KFrag per id the random source gave.
generate_kfrags(delegating_sk, receiving_pubkey, signing_sk, thresh, ids, sign_delegating_key, sign_receiving_key, x_a, random_coefficients, k) ==
    LET factory == KFragFactory_new(delegating_sk, receiving_pubkey, x_a,
                                    Take(random_coefficients, thresh - 1))
        made == [i \in 1 .. Len(ids) |->
                    KFragFactory_make(factory, delegating_sk, receiving_pubkey, signing_sk,
                                      sign_delegating_key, sign_receiving_key, ids[i], k)]
    IN [panic |-> factory.panic \/ \E i \in 1 .. Len(ids) : made[i].panic,
        kfrags |-> [i \in 1 .. Len(ids) |-> made[i].kfrag]]

\* A verification that rebuilds the signed message from the keys passed,
\* whatever the KFrag says was signed.
KeyFrag_verify_by_keys_passed(kfrag, signing_pubkey, maybe_delegating, maybe_receiving) ==
    /\ kfrag.commitment = PMul(ParamsU, kfrag.key)
    /\ UmbralPublicKey_verify(signing_pubkey,
           kfrag_proxy_message(kfrag.id, kfrag.commitment, kfrag.precursor,
                               maybe_delegating, maybe_receiving),
           kfrag.signature_for_proxy)

\* KeyFrag::verify: the commitment is key*u, each key the KFrag says was
\* signed is passed, and the proxy signature covers those keys; a key passed
\* for a flag that was not set is not looked at (PreparedCapsule::verify_kfrag
\* always passes both).
KeyFrag_verify(kfrag, signing_pubkey, maybe_delegating, maybe_receiving) ==
    /\ kfrag.commitment = PMul(ParamsU, kfrag.key)
    /\ kfrag.delegating_key_signed => maybe_delegating # <<>>
    /\ kfrag.receiving_key_signed => maybe_receiving # <<>>
    /\ UmbralPublicKey_verify(signing_pubkey,
           kfrag_proxy_message(kfrag.id, kfrag.commitment, kfrag.precursor,
               IF kfrag.delegating_key_signed THEN maybe_delegating ELSE <<>>,
               IF kfrag.receiving_key_signed THEN maybe_receiving ELSE <<>>),
           kfrag.signature_for_proxy)

(***************************************************************************)
(* capsule_frag.rs: re-encryption and its proof.                           *)
(***************************************************************************)
\* Some(bytes) -> hash_to_scalar(&[], Some(bytes)); None -> the zero scalar.
metadata_scalar(metadata) ==
    IF metadata = <<>> THEN 0 ELSE hash_to_scalar(<<>>, metadata[1])

\* A challenge that leaves the metadata out.
ProofChallenge_without_metadata(e, e1, e2, v, v1, v2, u, u1, u2, metadata) ==
    hash_to_scalar(<<e, e1, e2, v, v1, v2, u, u1, u2>>, <<>>)

\* The challenge of the proof, over nine points and the metadata scalar.
ProofChallenge(e, e1, e2, v, v1, v2, u, u1, u2, metadata) ==
    hash_to_scalar(<<e, e1, e2, v, v1, v2, u, u1, u2>>, Block(scalar_to_bytes(metadata)))

\* A proof whose response leaves the challenge out: z3 = t + rk.
CapsuleFragProof_without_challenge(c, kfrag, cfrag_e1, cfrag_v1, metadata, t) ==
    [panic |-> ~AllAffine(<<c.point_e, cfrag_e1, PMul(c.point_e, t), c.point_v, cfrag_v1,
                            PMul(c.point_v, t), ParamsU, kfrag.commitment,
                            PMul(ParamsU, t)>>),
     proof |-> [point_e2 |-> PMul(c.point_e, t),
                point_v2 |-> PMul(c.point_v, t),
                kfrag_commitment |-> kfrag.commitment,
                kfrag_pok |-> PMul(ParamsU, t),
                signature |-> SAdd(t, kfrag.key),
                kfrag_signature |-> kfrag.signature_for_bob,
                metadata |-> metadata]]

\* CapsuleFragProof::from_kfrag_and_cfrag with the scalar t the random source gave.
CapsuleFragProof_from_kfrag_and_cfrag(c, kfrag, cfrag_e1, cfrag_v1, metadata, t) ==
    LET rk == kfrag.key
        e == c.point_e
        v == c.point_v
        u == ParamsU
        u1 == kfrag.commitment
        e2 == PMul(e, t)
        v2 == PMul(v, t)
        u2 == PMul(u, t)
        h == ProofChallenge(e, cfrag_e1, e2, v, cfrag_v1, v2, u, u1, u2, metadata)
        z3 == SAdd(t, SMul(rk, h))
    IN [panic |-> ~AllAffine(<<e, cfrag_e1, e2, v, cfrag_v1, v2, u, u1, u2>>),
        proof |-> [point_e2 |-> e2,
                   point_v2 |-> v2,
                   kfrag_commitment |-> u1,
                   kfrag_pok |-> u2,
                   signature |-> z3,
                   kfrag_signature |-> kfrag.signature_for_bob,
                   metadata |-> metadata]]

\* A fragment whose V1 is made from E.
CapsuleFrag_from_kfrag_v1_from_e(c, kfrag, metadata, t) ==
    LET rk == kfrag.key
        e1 == PMul(c.point_e, rk)
        made == CapsuleFragProof_from_kfrag_and_cfrag(c, kfrag, e1, e1,
                                                      metadata_scalar(metadata), t)
    IN [panic |-> made.panic,
        cfrag |-> [point_e1 |-> e1,
                   point_v1 |-> e1,
                   kfrag_id |-> kfrag.id,
                   precursor |-> kfrag.precursor,
                   proof |-> made.proof]]

\* CapsuleFrag::from_kfrag
CapsuleFrag_from_kfrag(c, kfrag, metadata, t) ==
    LET rk == kfrag.key
        e1 == PMul(c.point_e, rk)
        v1 == PMul(c.point_v, rk)
        made == CapsuleFragProof_from_kfrag_and_cfrag(c, kfrag, e1, v1,
                                                      metadata_scalar(metadata), t)
    IN [panic |-> made.panic,
        cfrag |-> [point_e1 |-> e1,
                   point_v1 |-> v1,
                   kfrag_id |-> kfrag.id,
                   precursor |-> kfrag.precursor,
                   proof |-> made.proof]]

\* CapsuleFrag::verify: the signature and the three equations, all evaluated.
CapsuleFrag_verify_panics(cfrag, c, delegating_pubkey, receiving_pubkey) ==
    ~AllAffine(<<c.point_e, cfrag.point_e1, cfrag.proof.point_e2,
                 c.point_v, cfrag.point_v1, cfrag.proof.point_v2,
                 ParamsU, cfrag.proof.kfrag_commitment, cfrag.proof.kfrag_pok,
                 delegating_pubkey, receiving_pubkey, cfrag.precursor>>)

\* A verification that checks the three equations and no signature.
CapsuleFrag_verify_without_signature(cfrag, c, delegating_pubkey, receiving_pubkey, signing_pubkey) ==
    LET h == ProofChallenge(c.point_e, cfrag.point_e1, cfrag.proof.point_e2,
                            c.point_v, cfrag.point_v1, cfrag.proof.point_v2,
                            ParamsU, cfrag.proof.kfrag_commitment, cfrag.proof.kfrag_pok,
                            cfrag.proof.metadata)
        z3 == cfrag.proof.signature
    IN /\ PMul(c.point_e, z3) = PAdd(cfrag.proof.point_e2, PMul(cfrag.point_e1, h))
       /\ PMul(c.point_v, z3) = PAdd(cfrag.proof.point_v2, PMul(cfrag.point_v1, h))
       /\ PMul(ParamsU, z3) = PAdd(cfrag.proof.kfrag_pok,
                                   PMul(cfrag.proof.kfrag_commitment, h))

CapsuleFrag_verify(cfrag, c, delegating_pubkey, receiving_pubkey, signing_pubkey) ==
    LET e == c.point_e
        v == c.point_v
        e1 == cfrag.point_e1
        v1 == cfrag.point_v1
        u == ParamsU
        u1 == cfrag.proof.kfrag_commitment
        e2 == cfrag.proof.point_e2
        v2 == cfrag.proof.point_v2
        u2 == cfrag.proof.kfrag_pok
        h == ProofChallenge(e, e1, e2, v, v1, v2, u, u1, u2, cfrag.proof.metadata)
        valid_kfrag_signature ==
            UmbralPublicKey_verify(signing_pubkey,
                kfrag_validity_message(cfrag.kfrag_id, delegating_pubkey,
                                       receiving_pubkey, u1, cfrag.precursor),
                cfrag.proof.kfrag_signature)
        z3 == cfrag.proof.signature
        correct_reencryption_of_e == PMul(e, z3) = PAdd(e2, PMul(e1, h))
        correct_reencryption_of_v == PMul(v, z3) = PAdd(v2, PMul(v1, h))
        correct_rk_commitment == PMul(u, z3) = PAdd(u2, PMul(u1, h))
    IN /\ valid_kfrag_signature
       /\ correct_reencryption_of_e
       /\ correct_reencryption_of_v
       /\ correct_rk_commitment

(***************************************************************************)
(* capsule.rs: opening a capsule from capsule fragments.                   *)
(***************************************************************************)
Panicked(why) == [tag |-> "Panic", why |-> why, key_seed |-> <<>>]

\* A coefficient with the difference the other way round:
\* the product over j # i of xs[j] / (xs[i] - xs[j]).
RECURSIVE lambda_coeff_swapped_from(_, _, _)
lambda_coeff_swapped_from(xs, i, j) ==
    IF j > Len(xs) THEN 1
    ELSE IF j = i THEN lambda_coeff_swapped_from(xs, i, j + 1)
    ELSE SMul(SMul(xs[j], invert(SSub(xs[i], xs[j]))),
              lambda_coeff_swapped_from(xs, i, j + 1))

lambda_coeff_swapped(xs, i) ==
    lambda_coeff_swapped_from(xs, i, 1)

\* lambda_coeff: the product over j # i of xs[j] / (xs[j] - xs[i]).
RECURSIVE lambda_coeff_from(_, _, _)
lambda_coeff_from(xs, i, j) ==
    IF j > Len(xs) THEN 1
    ELSE IF j = i THEN lambda_coeff_from(xs, i, j + 1)
    ELSE SMul(SMul(xs[j], invert(SSub(xs[j], xs[i]))), lambda_coeff_from(xs, i, j + 1))

lambda_coeff(xs, i) ==
    lambda_coeff_from(xs, i, 1)

\* An inversion whose None is not unwrapped: only the index can panic.
lambda_coeff_panics_index_only(xs, i) ==
    i > Len(xs) /\ Len(xs) > 0

\* xs[i] out of range, or invert() of a zero difference, unwrapped.
lambda_coeff_panics(xs, i) ==
    \/ i > Len(xs) /\ Len(xs) > 0
    \/ \E j \in 1 .. Len(xs) : j # i /\ i <= Len(xs) /\ xs[j] = xs[i]

\* LambdaCoeffHeap::new: a share index for every capsule fragment.
LambdaCoeffHeap_new(cfrag_seq, points) ==
    [panic |-> FALSE,
     xs |-> [i \in 1 .. Len(cfrag_seq) |->
                ShareIndexDigest(points[1], points[2], points[3], cfrag_seq[i].kfrag_id)]]

\* A heapless container filled from the id of the first fragment only.
LambdaCoeffHeapless_new_first_id(Threshold, cfrag_seq, points) ==
    [panic |-> Len(cfrag_seq) < Threshold,
     xs |-> [i \in 1 .. Threshold |->
                IF i <= Len(cfrag_seq)
                THEN ShareIndexDigest(points[1], points[2], points[3], cfrag_seq[1].kfrag_id)
                ELSE 0]]

\* LambdaCoeffHeapless::<Threshold>::new: the first Threshold fragments only.
LambdaCoeffHeapless_new(Threshold, cfrag_seq, points) ==
    [panic |-> Len(cfrag_seq) < Threshold,
     xs |-> [i \in 1 .. Threshold |->
                IF i <= Len(cfrag_seq)
                THEN ShareIndexDigest(points[1], points[2], points[3], cfrag_seq[i].kfrag_id)
                ELSE 0]]

RECURSIVE CombineE(_, _, _)
CombineE(cfrag_seq, xs, i) ==
    IF i > Len(cfrag_seq) THEN Identity
    ELSE PAdd(PMul(cfrag_seq[i].point_e1, lambda_coeff(xs, i)), CombineE(cfrag_seq, xs, i + 1))

RECURSIVE CombineV(_, _, _)
CombineV(cfrag_seq, xs, i) ==
    IF i > Len(cfrag_seq) THEN Identity
    ELSE PAdd(PMul(cfrag_seq[i].point_v1, lambda_coeff(xs, i)), CombineV(cfrag_seq, xs, i + 1))

\* A check that accepts every combination.
ConsistencyCheck_dropped(orig_pub_key, s, d, h, e_prime, v_prime) == TRUE

\* The check open_reencrypted_generic asserts before it derives the key.
ConsistencyCheck(orig_pub_key, s, d, h, e_prime, v_prime) ==
    PMul(orig_pub_key, SMul(s, invert(d))) = PAdd(PMul(e_prime, h), v_prime)

\* The implementations of the trait LambdaCoeff.
LambdaCoeffHeap == [heapless |-> FALSE, Threshold |-> 0]
LambdaCoeffHeapless(Threshold) == [heapless |-> TRUE, Threshold |-> Threshold]

\* LC::new
LC_new(LC, cfrag_seq, points) ==
    IF LC.heapless THEN LambdaCoeffHeapless_new(LC.Threshold, cfrag_seq, points)
    ELSE LambdaCoeffHeap_new(cfrag_seq, points)

\* Capsule::open_reencrypted_generic::<LC>
Capsule_open_reencrypted_generic(LC, c, receiving_sk, delegating_key, cfrag_seq) ==
    IF cfrag_seq = <<>> THEN Panicked("index")
    ELSE
      LET pub_key == get_pubkey(receiving_sk)
          precursor == cfrag_seq[1].precursor
          dh_point == PMul(precursor, receiving_sk)
          points == <<precursor, pub_key, dh_point>>
          lc == LC_new(LC, cfrag_seq, points)
          Bad(i) == cfrag_seq[i].precursor # precursor \/ lambda_coeff_panics(lc.xs, i)
          e_prime == CombineE(cfrag_seq, lc.xs, 1)
          v_prime == CombineV(cfrag_seq, lc.xs, 1)
          d == NonInteractiveDigest(precursor, pub_key, dh_point)
          h == ScalarDigest(Blocks(<<c.point_e, c.point_v>>))
          shared_key == PMul(PAdd(e_prime, v_prime), d)
      IN IF ~AllAffine(points) THEN Panicked("encode")
         ELSE IF lc.panic THEN Panicked("index")
         ELSE IF \E i \in 1 .. Len(cfrag_seq) : Bad(i)
              THEN LET first == CHOOSE i \in 1 .. Len(cfrag_seq) :
                                   Bad(i) /\ \A j \in 1 .. (i - 1) : ~Bad(j)
                   IN IF cfrag_seq[first].precursor # precursor
                      THEN Panicked("precursor") ELSE Panicked("lambda")
         ELSE IF ~AllAffine(<<c.point_e, c.point_v>>) THEN Panicked("encode")
         ELSE IF ~invert_is_some(d) THEN Panicked("invert")
         ELSE IF ~ConsistencyCheck(delegating_key, c.signature, d, h, e_prime, v_prime)
              THEN Panicked("consistency")
         ELSE IF ~to_affine_is_some(shared_key) THEN Panicked("encode")
         ELSE [tag |-> "Ok", why |-> "", key_seed |-> point_to_bytes(shared_key)]

Capsule_open_reencrypted(c, receiving_sk, delegating_key, cfrag_seq) ==
    Capsule_open_reencrypted_generic(LambdaCoeffHeap, c, receiving_sk,
                                     delegating_key, cfrag_seq)

Capsule_open_reencrypted_heapless(Threshold, c, receiving_sk, delegating_key, cfrag_seq) ==
    Capsule_open_reencrypted_generic(LambdaCoeffHeapless(Threshold), c, receiving_sk,
                                     delegating_key, cfrag_seq)

\* Capsule::with_correctness_keys
with_correctness_keys(c, delegating_key, receiving_key, verifying_key) ==
    [capsule |-> c, delegating_key |-> delegating_key,
     receiving_key |-> receiving_key, verifying_key |-> verifying_key]

PreparedCapsule_verify_cfrag_panics(prepared, cfrag) ==
    CapsuleFrag_verify_panics(cfrag, prepared.capsule, prepared.delegating_key,
                              prepared.receiving_key)

PreparedCapsule_verify_cfrag(prepared, cfrag) ==
    CapsuleFrag_verify(cfrag, prepared.capsule, prepared.delegating_key,
                       prepared.receiving_key, prepared.verifying_key)

\* A verify_kfrag that wants the signed message to cover both keys it passes.
PreparedCapsule_verify_kfrag_both_signed(prepared, kfrag) ==
    KeyFrag_verify_by_keys_passed(kfrag, prepared.verifying_key,
                                  <<prepared.delegating_key>>, <<prepared.receiving_key>>)

PreparedCapsule_verify_kfrag(prepared, kfrag) ==
    KeyFrag_verify(kfrag, prepared.verifying_key,
                   <<prepared.delegating_key>>, <<prepared.receiving_key>>)

\* PreparedCapsule::reencrypt with the scalar t the random source gave.
PreparedCapsule_reencrypt(prepared, kfrag, metadata, verify_kfrag, t) ==
    IF verify_kfrag /\ ~PreparedCapsule_verify_kfrag(prepared, kfrag)
    THEN [tag |-> "None", cfrag |-> <<>>]
    ELSE LET made == CapsuleFrag_from_kfrag(prepared.capsule, kfrag, metadata, t)
         IN IF made.panic THEN [tag |-> "Panic", cfrag |-> <<>>]
            ELSE [tag |-> "Some", cfrag |-> made.cfrag]

\* A loop that asserts the proof of the first fragment only.
CheckProofPanics_first_only(prepared, cfrag_seq) ==
    \E i \in 1 .. Len(cfrag_seq) :
        /\ i = 1
        /\ \/ PreparedCapsule_verify_cfrag_panics(prepared, cfrag_seq[i])
           \/ ~PreparedCapsule_verify_cfrag(prepared, cfrag_seq[i])

\* The assert!(self.verify_cfrag(cfrag)) loop under check_proof.
CheckProofPanics(prepared, cfrag_seq) ==
    \E i \in 1 .. Len(cfrag_seq) :
        \/ PreparedCapsule_verify_cfrag_panics(prepared, cfrag_seq[i])
        \/ ~PreparedCapsule_verify_cfrag(prepared, cfrag_seq[i])

PreparedCapsule_open_reencrypted(prepared, cfrag_seq, receiving_sk, check_proof) ==
    IF check_proof /\ CheckProofPanics(prepared, cfrag_seq) THEN Panicked("proof")
    ELSE Capsule_open_reencrypted(prepared.capsule, receiving_sk,
                                  prepared.delegating_key, cfrag_seq)

PreparedCapsule_open_reencrypted_heapless(Threshold, prepared, cfrag_seq, receiving_sk, check_proof) ==
    IF check_proof /\ CheckProofPanics(prepared, cfrag_seq) THEN Panicked("proof")
    ELSE Capsule_open_reencrypted_heapless(Threshold, prepared.capsule, receiving_sk,
                                           prepared.delegating_key, cfrag_seq)

(***************************************************************************)
(* pre.rs: decryption by the receiver.                                     *)
(***************************************************************************)
decrypt_reencrypted(ct, prepared, cfrag_seq, decrypting_key, check_proof) ==
    LET opened == PreparedCapsule_open_reencrypted(prepared, cfrag_seq, decrypting_key,
                                                   check_proof)
    IN IF opened.tag = "Panic"
       THEN [tag |-> "Panic", val |-> <<>>, why |-> opened.why]
       ELSE LET res == UmbralDEM_decrypt(UmbralDEM_new(opened.key_seed), ct,
                                         Capsule_to_bytes(prepared.capsule))
            IN [tag |-> res.tag, val |-> res.val, why |-> ""]

decrypt_reencrypted_in_place(Threshold, buf, prepared, cfrag_seq, decrypting_key, check_proof) ==
    LET opened == PreparedCapsule_open_reencrypted_heapless(Threshold, prepared, cfrag_seq,
                                                            decrypting_key, check_proof)
    IN IF opened.tag = "Panic"
       THEN [tag |-> "Panic", buf |-> buf, why |-> opened.why]
       ELSE LET res == UmbralDEM_decrypt_in_place(UmbralDEM_new(opened.key_seed), buf,
                                                  Capsule_to_bytes(prepared.capsule))
            IN [tag |-> res.tag, buf |-> res.buf, why |-> ""]

(***************************************************************************)
(* The inputs the sessions draw from.                                      *)
(***************************************************************************)
HashKeys == 0 .. MaxHashKey
\* Byte values at both ends of the range, so that the keystream wraps.
SomeBytes == {0, 255}
Plaintexts == {Wrap(m) : m \in SeqsUpTo(SomeBytes, MaxMsgLen)}
Nonces == {[i \in 1 .. NonceSize |-> n] : n \in SomeBytes}
NoCiphertext == [nonce |-> <<>>, data |-> <<>>]
NoBuffer == [bytes |-> <<>>, cap |-> 0]
NoOut == [tag |-> "Idle", val |-> <<>>]
\* The capacities of the caller's buffer: too small for the tag, too small
\* for the nonce, exactly enough, and more than enough.
Capacities(len) ==
    {len, len + TagSize, len + TagSize + NonceSize, len + TagSize + NonceSize + 1}

(***************************************************************************)
(* The KEM/DEM session: encrypt to Alice, then Alice checks the capsule    *)
(* and decrypts.                                                           *)
(***************************************************************************)
InitKem ==
    /\ hk \in HashKeys
    /\ pc = "start"
    /\ delegating_privkey \in CurveScalar
    /\ plain_data = <<>>
    /\ capsule = NoCapsule
    /\ ciphertext = NoCiphertext
    /\ buffer = NoBuffer
    /\ out = NoOut
    /\ checked = "Idle"
    /\ receiving_privkey = 0
    /\ signing_privkey = 0
    /\ threshold = 0
    /\ num_kfrags = 0
    /\ kfrags = <<>>
    /\ cfrags = <<>>
    /\ presented = <<>>
    /\ decrypting_privkey = 0
    /\ objects = <<>>
    /\ call_args = <<>>

Encrypt ==
    /\ pc = "start"
    /\ \E msg \in Plaintexts, priv_r \in NonZeroScalar, priv_u \in NonZeroScalar,
          nonce \in Nonces :
          LET r == encrypt(get_pubkey(delegating_privkey), msg, priv_r, priv_u, nonce)
          IN /\ plain_data' = msg
             /\ IF r.panic
                THEN /\ pc' = "encrypt_panicked"
                     /\ UNCHANGED <<capsule, ciphertext>>
                ELSE /\ pc' = "encrypted"
                     /\ capsule' = r.capsule
                     /\ ciphertext' = r.ciphertext
    /\ UNCHANGED <<hk, call_args, delegating_privkey, buffer, out, checked, keyVars, objects, fragVars>>

EncryptInPlace ==
    /\ pc = "start"
    /\ \E msg \in Plaintexts, priv_r \in NonZeroScalar, priv_u \in NonZeroScalar,
          nonce \in Nonces :
          \E cap \in Capacities(Len(msg)) :
             LET r == encrypt_in_place([bytes |-> msg, cap |-> cap],
                                       get_pubkey(delegating_privkey),
                                       priv_r, priv_u, nonce)
             IN /\ plain_data' = msg
                /\ buffer' = r.buf
                /\ capsule' = r.capsule
                /\ pc' = CASE r.tag = "Some" -> "encrypted_in_place"
                           [] r.tag = "None" -> "encrypt_in_place_none"
                           [] OTHER -> "encrypt_panicked"
    /\ UNCHANGED <<hk, call_args, delegating_privkey, ciphertext, out, checked, keyVars, objects, fragVars>>

\* capsule.verify() on the capsule encrypt returned.
VerifyCapsule ==
    /\ pc \in {"encrypted", "encrypted_in_place"}
    /\ checked = "Idle"
    /\ checked' = IF Capsule_verify(capsule) THEN "True" ELSE "False"
    /\ UNCHANGED <<hk, call_args, pc, delegating_privkey, kemVars, out, keyVars, objects, fragVars>>

DecryptOriginal ==
    /\ pc = "encrypted"
    /\ out' = decrypt_original(ciphertext, capsule, delegating_privkey)
    /\ pc' = "decrypted"
    /\ UNCHANGED <<hk, call_args, delegating_privkey, plain_data, capsule, ciphertext, buffer, checked,
                   keyVars, objects, fragVars>>

DecryptOriginalInPlace ==
    /\ pc = "encrypted_in_place"
    /\ LET r == decrypt_original_in_place(buffer, capsule, delegating_privkey)
       IN /\ out' = [tag |-> r.tag, val |-> r.buf.bytes]
          /\ buffer' = r.buf
    /\ pc' = "decrypted_in_place"
    /\ UNCHANGED <<hk, call_args, delegating_privkey, plain_data, capsule, ciphertext, checked,
                   keyVars, objects, fragVars>>

\* The capsules a caller can hold: Capsule::from_bytes decodes any two
\* points that have a compressed form and any scalar.
DecodableCapsules ==
    [point_e : CurvePoint \ {Identity}, point_v : CurvePoint \ {Identity},
     signature : CurveScalar]

\* decrypt_original with the right key and ciphertext and a capsule that
\* differs from the one encrypt returned in exactly one of E, V and s.
DecryptOriginalOtherCapsule ==
    /\ pc = "encrypted"
    /\ \E d \in DecodableCapsules :
          /\ \/ d.point_e # capsule.point_e /\ d.point_v = capsule.point_v
                   /\ d.signature = capsule.signature
             \/ d.point_e = capsule.point_e /\ d.point_v # capsule.point_v
                   /\ d.signature = capsule.signature
             \/ d.point_e = capsule.point_e /\ d.point_v = capsule.point_v
                   /\ d.signature # capsule.signature
          /\ call_args' = [capsule |-> d]
          /\ out' = decrypt_original(ciphertext, d, delegating_privkey)
    /\ pc' = "decrypted_other_capsule"
    /\ UNCHANGED <<hk, delegating_privkey, kemVars, checked, keyVars, objects, fragVars>>

(***************************************************************************)
(* random_oracles.rs: unsafe_hash_to_point, try-and-increment.             *)
(***************************************************************************)
\* The counters run below u32::MAX; the model keeps the loop and a small limit.
CounterMax == 3

to_fixed_be_bytes(x) ==
    <<(x \div (ByteMod * ByteMod * ByteMod)) % ByteMod, (x \div (ByteMod * ByteMod)) % ByteMod,
      (x \div ByteMod) % ByteMod, x % ByteMod>>

\* The first 1 + curve_key_size_bytes bytes of the Blake2b digest of to_hash:
\* a byte that gives the sign and the bytes of a candidate x coordinate,
\* which for the small group is 0 .. Q, on the curve or not.
Blake2bPrefix(to_hash) ==
    LET acc == Absorb(hk + 2, to_hash)
    IN <<acc % ByteMod>> \o Zeros(CurveScalarSize - 1) \o <<(acc \div 2) % (Q + 1)>>

\* The loop of unsafe_hash_to_point from the counter i on.
RECURSIVE hash_to_point_from(_, _, _)
hash_to_point_from(data, label, i) ==
    IF i >= CounterMax THEN [tag |-> "None", point |-> Identity]
    ELSE LET label_data == to_fixed_be_bytes(Len(label)) \o label
                             \o to_fixed_be_bytes(Len(data)) \o data
             hash_digest == Blake2bPrefix(label_data \o to_fixed_be_bytes(i))
             sign == IF hash_digest[1] % 2 = 0 THEN <<2>> ELSE <<3>>
             maybe_point == bytes_to_point(sign \o Tail(hash_digest))
         IN IF maybe_point.tag # "None" THEN maybe_point
            ELSE hash_to_point_from(data, label, i + 1)

\* A loop that starts at the counter 1.
unsafe_hash_to_point_from_one(data, label) ==
    hash_to_point_from(data, label, 1)

unsafe_hash_to_point(data, label) ==
    hash_to_point_from(data, label, 0)

\* unsafe_hash_to_point(data, label) for some data and label.
HashToPoint ==
    /\ pc = "start"
    /\ \E data \in SeqsUpTo(SomeBytes, MaxMsgLen), label \in SeqsUpTo(SomeBytes, 1) :
          LET r == unsafe_hash_to_point(data, label)
          IN /\ call_args' = [data |-> data, label |-> label]
             /\ out' = [tag |-> r.tag, val |-> r.point]
    /\ pc' = "hashed"
    /\ UNCHANGED <<hk, delegating_privkey, kemVars, checked, keyVars, objects, fragVars>>

\* x.to_bytes() and Capsule::from_bytes of the result, for a capsule x.
CapsuleRoundTrip ==
    /\ pc = "start"
    /\ \E x \in DecodableCapsules :
          LET r == Capsule_from_bytes(Capsule_to_bytes(x))
          IN /\ call_args' = [capsule |-> x, bytes |-> Capsule_to_bytes(x)]
             /\ out' = [tag |-> r.tag, val |-> r.capsule, params |-> r.params]
    /\ pc' = "decoded"
    /\ UNCHANGED <<hk, delegating_privkey, kemVars, checked, keyVars, objects, fragVars>>

\* Capsule::from_bytes on the bytes of a capsule after one change: a byte
\* dropped or added, no bytes at all, the sign byte of E not a sign, the x
\* of V not on the curve, or s not below the order.
CapsuleFromMalformedBytes ==
    /\ pc = "start"
    /\ \E x \in DecodableCapsules :
          LET b == Capsule_to_bytes(x)
              params_size == Len(UmbralParameters_to_bytes)
              e_sign == params_size + 1
              v_x == params_size + CurveCompressedPointSize + CurveCompressedPointSize
          IN \E bytes \in {Take(b, Len(b) - 1), Append(b, 0), <<>>,
                            [b EXCEPT ![e_sign] = 4],
                            [b EXCEPT ![v_x] = Q - 1],
                            [b EXCEPT ![Len(b)] = Q],
                            [b EXCEPT ![Len(b) - 1] = 1]} :
                LET r == Capsule_from_bytes(bytes)
                IN /\ call_args' = [capsule |-> x, bytes |-> bytes]
                   /\ out' = [tag |-> r.tag, val |-> r.capsule, params |-> r.params]
    /\ pc' = "decoded_malformed"
    /\ UNCHANGED <<hk, delegating_privkey, kemVars, checked, keyVars, objects, fragVars>>

\* decrypt_original_in_place with the right capsule and key on a buffer that
\* is not the one encrypt_in_place filled: empty, shorter than a nonce, one
\* byte short, or with a byte of the tag or of the nonce changed.
DecryptOtherBufferInPlace ==
    /\ pc = "encrypted_in_place"
    /\ LET b == buffer.bytes
           n == Len(plain_data)
       IN \E bytes \in {<<>>, Take(b, NonceSize - 1), Take(b, Len(b) - 1),
                         [b EXCEPT ![n + TagSize] = <<0, 0>>],
                         [b EXCEPT ![Len(b)] = <<(b[Len(b)][1] + 1) % ByteMod>>]} :
             LET r == decrypt_original_in_place([buffer EXCEPT !.bytes = bytes], capsule,
                                                delegating_privkey)
             IN /\ call_args' = [bytes |-> bytes]
                /\ out' = [tag |-> r.tag, val |-> r.buf.bytes]
    /\ pc' = "decrypted_other_buffer"
    /\ UNCHANGED <<hk, delegating_privkey, kemVars, checked, keyVars, objects, fragVars>>

NextKem ==
    \/ Encrypt
    \/ EncryptInPlace
    \/ VerifyCapsule
    \/ DecryptOriginal
    \/ DecryptOriginalInPlace
    \/ DecryptOriginalOtherCapsule
    \/ CapsuleRoundTrip
    \/ CapsuleFromMalformedBytes
    \/ DecryptOtherBufferInPlace
    \/ HashToPoint

SpecKem == InitKem /\ [][NextKem]_vars

\* C1: whenever Alice decrypts, with the secret key of the public key the
\* data was encrypted to, the capsule and ciphertext that encrypt returned
\* (or the buffer and capsule that encrypt_in_place returned), she gets
\* Some(plaintext) back: the returned bytes, and the buffer of the in-place
\* pair, equal the plaintext.
C1_KemRoundTrip ==
    /\ pc = "decrypted" => out = [tag |-> "Some", val |-> plain_data]
    /\ pc = "decrypted_in_place" =>
          /\ out = [tag |-> "Some", val |-> plain_data]
          /\ buffer.bytes = plain_data

C1_Witness ==
    /\ pc = "decrypted_in_place"
    /\ Len(plain_data) = MaxMsgLen
    /\ out.tag = "Some"
    /\ buffer.bytes = plain_data
    /\ delegating_privkey > 1

\* C4: every capsule that encapsulation returns, for any public key and any
\* nonzero r and u_s, satisfies s*g = V + h*E with h the digest of (E, V):
\* capsule.verify() is true.
C4_FreshCapsuleVerifies ==
    /\ pc \in {"encrypted", "encrypted_in_place", "decrypted", "decrypted_in_place"} =>
          LET h == ScalarDigest(Blocks(<<capsule.point_e, capsule.point_v>>))
          IN /\ PMul(Generator, capsule.signature)
                   = PAdd(capsule.point_v, PMul(capsule.point_e, h))
             /\ capsule.point_e # Identity
             /\ capsule.point_v # Identity
    /\ checked # "Idle" => checked = "True"

C4_Witness ==
    /\ checked = "True"
    /\ capsule.signature # 0
    /\ capsule.point_e # capsule.point_v
    /\ delegating_privkey > 1

\* C15: decrypt_original with the correct secret key and the ciphertext of
\* encrypt returns None whenever the capsule passed differs from the capsule
\* encrypt returned in E, in V or in s.
C15_OtherCapsuleReturnsNone ==
    pc = "decrypted_other_capsule" => out.tag = "None"

\* The same for the capsules whose E + V is not the identity.
C15_OtherOpenableCapsuleReturnsNone ==
    (/\ pc = "decrypted_other_capsule"
     /\ PAdd(call_args.capsule.point_e, call_args.capsule.point_v) # Identity) =>
        out.tag = "None"

\* C16: for every capsule, to_bytes is E compressed, then V compressed, then
\* s big-endian, 98 bytes in all, with nothing before or after.
C16_CapsuleBytesAreEVs ==
    pc = "decoded" =>
        /\ Len(call_args.bytes)
              = CurveCompressedPointSize + CurveCompressedPointSize + CurveScalarSize
        /\ call_args.bytes = point_to_bytes(call_args.capsule.point_e)
                                \o point_to_bytes(call_args.capsule.point_v)
                                \o scalar_to_bytes(call_args.capsule.signature)

\* C16 as the code has it: for every capsule, to_bytes is the serialization
\* of the parameters (the point u, compressed), and after it E compressed,
\* V compressed and s big-endian, which are the last 98 bytes, with nothing
\* after them.
C16_CapsuleBytesAreParamsEVs ==
    pc = "decoded" =>
        LET bytes == call_args.bytes
            x == call_args.capsule
            evs == CurveCompressedPointSize + CurveCompressedPointSize + CurveScalarSize
        IN /\ Len(bytes) = CurveCompressedPointSize + evs
           /\ Take(bytes, CurveCompressedPointSize) = point_to_bytes(ParamsU)
           /\ SubSeq(bytes, Len(bytes) - evs + 1, Len(bytes) - evs + CurveCompressedPointSize)
                 = <<SignByte(x.point_e)>> \o Zeros(CurveCompressedPointSize - 2)
                     \o <<XCoord(x.point_e)>>
           /\ SubSeq(bytes, Len(bytes) - CurveScalarSize - CurveCompressedPointSize + 1,
                     Len(bytes) - CurveScalarSize)
                 = <<SignByte(x.point_v)>> \o Zeros(CurveCompressedPointSize - 2)
                     \o <<XCoord(x.point_v)>>
           /\ Drop(bytes, Len(bytes) - CurveScalarSize)
                 = Zeros(CurveScalarSize - 1) \o <<x.signature>>

C16_Witness ==
    /\ pc = "decoded"
    /\ Len(call_args.bytes) = CapsuleSize
    /\ call_args.capsule.point_e = Q - 1
    /\ call_args.capsule.point_v = 1
    /\ call_args.capsule.signature = Q - 1

\* C17: for every capsule x, Capsule::from_bytes(x.to_bytes()) is Some(y)
\* with y equal to x in every field, the parameters included.
C17_CapsuleRoundTrip ==
    pc = "decoded" =>
        /\ out.tag = "Some"
        /\ out.val = call_args.capsule
        /\ out.params = ParamsU

C17_Witness ==
    /\ pc = "decoded"
    /\ out.tag = "Some"
    /\ out.val = call_args.capsule
    /\ 2 * out.val.point_e > Q
    /\ 2 * out.val.point_v < Q
    /\ out.val.signature # 0

\* C18: Capsule::from_bytes given input of the wrong length, a malformed
\* compressed point or an out-of-range scalar returns the failure value and
\* never aborts.
C18_MalformedBytesGiveNone ==
    pc = "decoded_malformed" => out.tag = "None"

\* The bytes are n ciphertext bytes, then the TagSize bytes of the tag over
\* them, then the NonceSize bytes of the nonce the tag was made with.
NonceLastLayout(bytes, n) ==
    /\ Len(bytes) = n + TagSize + NonceSize
    /\ \A j \in 1 .. TagSize : Len(bytes[n + j]) > 1 /\ bytes[n + j][1] = j
    /\ Take(bytes, n) = bytes[n + 1][5]
    /\ Drop(bytes, n + TagSize) = Wrap(bytes[n + 1][3])

\* C19: the allocating and the in-place encryption both produce
\* ciphertext_bytes || tag(16) || nonce(12), the nonce last, 28 bytes more
\* than the plaintext.
C19_BothVariantsNonceLast ==
    /\ pc = "encrypted_in_place" => NonceLastLayout(buffer.bytes, Len(plain_data))
    /\ pc = "encrypted" => NonceLastLayout(ciphertext.data, Len(plain_data))

\* C19 as the code has it: the in-place encryption leaves
\* ciphertext_bytes || tag(16) || nonce(12) in the buffer, the nonce last;
\* the allocating encryption returns a Ciphertext whose data is
\* ciphertext_bytes || tag(16) and whose 12-byte nonce is a field of its own;
\* each is 28 bytes more than the plaintext.
C19_NonceLastInPlaceAndBesideDataAllocating ==
    /\ pc = "encrypted_in_place" => NonceLastLayout(buffer.bytes, Len(plain_data))
    /\ pc = "encrypted" =>
          LET n == Len(plain_data)
              data == ciphertext.data
          IN /\ Len(data) = n + TagSize
             /\ Len(ciphertext.nonce) = NonceSize
             /\ Len(data) + Len(ciphertext.nonce) = n + TagSize + NonceSize
             /\ \A j \in 1 .. TagSize : Len(data[n + j]) > 1 /\ data[n + j][1] = j
             /\ Take(data, n) = data[n + 1][5]
             /\ ciphertext.nonce = data[n + 1][3]

C19_Witness ==
    /\ pc = "encrypted"
    /\ Len(plain_data) = MaxMsgLen
    /\ Len(ciphertext.data) = MaxMsgLen + TagSize
    /\ ciphertext.nonce = [i \in 1 .. NonceSize |-> 255]
    /\ ciphertext.data[1] # plain_data[1]

\* C20: every key that key generation returns has a scalar different from
\* 0, whatever the random source gave, and its public key is the scalar
\* times the generator g.
C20_GeneratedKeyNonZero ==
    /\ delegating_privkey # 0
    /\ get_pubkey(delegating_privkey) = PMul(Generator, delegating_privkey)

(***************************************************************************)
(* The delegation sessions: a data source encrypts to Alice, Alice splits  *)
(* her key for Bob, proxies re-encrypt, Bob verifies and decrypts.         *)
(***************************************************************************)
MaxKey == 2
MaxId == 3
MaxCoeff == 1
MaxKFrags == 3

KeyChoices == 1 .. MaxKey
\* The secret keys of parties outside the delegation.
OtherKeyChoices == 1 .. (MaxKey + 1)
IdChoices == 1 .. MaxId
CoeffChoices == 0 .. MaxCoeff
SigningKeys == {Q - 1}
\* Option<&[u8]>: None is <<>>, Some(bytes) is <<bytes>>.
Metadatas == {<<>>, <<<<1>>>>, <<<<2>>>>}
DelegatedPlaintexts == {Wrap([i \in 1 .. MaxMsgLen |-> IF i % 2 = 1 THEN 255 ELSE 0])}
DelegatedNonces == {[i \in 1 .. NonceSize |-> 255]}
\* Lists of ids up to the order of the list, which no caller looks at.
IdSeqs(n) == {ids \in [1 .. n -> IdChoices] :
                 \A i \in 1 .. n : \A j \in i .. n : ids[i] <= ids[j]}
CoeffSeqs(n) == [1 .. n -> CoeffChoices]
\* The nonempty subsets of 1 .. n, each as an increasing list.
Selections(n) == {sel \in SeqsUpTo(1 .. n, n) :
                     /\ sel # <<>>
                     /\ \A i \in 1 .. (Len(sel) - 1) : sel[i] < sel[i + 1]}

prepared_capsule ==
    with_correctness_keys(capsule, get_pubkey(delegating_privkey),
                          get_pubkey(receiving_privkey), get_pubkey(signing_privkey))

InitKeys ==
    /\ hk \in HashKeys
    /\ pc = "keys"
    /\ delegating_privkey \in KeyChoices
    /\ receiving_privkey \in KeyChoices
    /\ signing_privkey \in SigningKeys
    /\ plain_data = <<>>
    /\ capsule = NoCapsule
    /\ ciphertext = NoCiphertext
    /\ buffer = NoBuffer
    /\ out = NoOut
    /\ checked = "Idle"
    /\ kfrags = <<>>
    /\ cfrags = <<>>
    /\ presented = <<>>
    /\ decrypting_privkey = 0
    /\ objects = <<>>
    /\ call_args = <<>>

\* The session that studies one capsule fragment and its proof.
InitProof ==
    /\ InitKeys
    /\ num_kfrags = 1
    /\ threshold = 1

\* The session that studies t-of-N decryption.
InitPre ==
    /\ InitKeys
    /\ num_kfrags \in 1 .. MaxKFrags
    /\ threshold \in 1 .. num_kfrags

\* encrypt(&params, &delegating_pubkey, plain_data) by the data source.
SourceEncrypt ==
    /\ pc = "keys"
    /\ \E msg \in DelegatedPlaintexts, priv_r \in KeyChoices, priv_u \in KeyChoices,
          nonce \in DelegatedNonces :
          LET r == encrypt(get_pubkey(delegating_privkey), msg, priv_r, priv_u, nonce)
          IN /\ plain_data' = msg
             /\ IF r.panic
                THEN /\ pc' = "encrypt_panicked"
                     /\ UNCHANGED <<capsule, ciphertext>>
                ELSE /\ pc' = "encrypted_for"
                     /\ capsule' = r.capsule
                     /\ ciphertext' = r.ciphertext
    /\ UNCHANGED <<hk, call_args, delegating_privkey, buffer, out, checked, keyVars, objects, fragVars>>

\* generate_kfrags(&params, &delegating_privkey, &receiving_pubkey, threshold,
\* num_frags, &signing_privkey, ..): Alice's delegation to Bob.
Delegate ==
    /\ pc = "encrypted_for"
    /\ \E x_a \in KeyChoices, coeffs \in CoeffSeqs(threshold - 1),
          ids \in IdSeqs(num_kfrags) :
          LET r == generate_kfrags(delegating_privkey, get_pubkey(receiving_privkey),
                                   signing_privkey, threshold, ids, TRUE, TRUE,
                                   x_a, coeffs, 1)
          IN IF r.panic
             THEN /\ pc' = "delegate_panicked"
                  /\ UNCHANGED kfrags
             ELSE /\ pc' = "delegated"
                  /\ kfrags' = r.kfrags
    /\ UNCHANGED <<hk, call_args, delegating_privkey, kemVars, out, checked, keyVars, objects,
                   cfrags, presented, decrypting_privkey>>

\* prepared_capsule.reencrypt(&kfrag, metadata, true) by one proxy.
ProxyReencrypt ==
    /\ pc = "delegated"
    /\ \E metadata \in Metadatas, t \in NonZeroScalar :
          LET r == PreparedCapsule_reencrypt(prepared_capsule, kfrags[1], metadata, TRUE, t)
          IN IF r.tag = "Some"
             THEN /\ pc' = "reencrypted_one"
                  /\ cfrags' = <<r.cfrag>>
                  /\ presented' = <<r.cfrag>>
             ELSE /\ pc' = "reencrypt_failed"
                  /\ UNCHANGED <<cfrags, presented>>
    /\ UNCHANGED <<hk, call_args, delegating_privkey, kemVars, out, checked, keyVars, objects,
                   kfrags, decrypting_privkey>>

VerifyOutcome(cfrag) ==
    IF PreparedCapsule_verify_cfrag_panics(prepared_capsule, cfrag) THEN "Panic"
    ELSE IF PreparedCapsule_verify_cfrag(prepared_capsule, cfrag) THEN "True"
    ELSE "False"

\* prepared_capsule.verify_cfrag(&cfrag) on the fragment the proxy returned.
VerifyCFrag ==
    /\ pc = "reencrypted_one"
    /\ checked' = VerifyOutcome(presented[1])
    /\ pc' = "verified"
    /\ UNCHANGED <<hk, call_args, delegating_privkey, kemVars, out, keyVars, objects, fragVars>>


NonIdentityPoint == CurvePoint \ {Identity}

\* The message the fragment's kfrag_signature is meant to cover.
ValidityMessageOf(cfrag) ==
    kfrag_validity_message(cfrag.kfrag_id, get_pubkey(delegating_privkey),
                           get_pubkey(receiving_privkey),
                           cfrag.proof.kfrag_commitment, cfrag.precursor)

\* Other values of the type UmbralSignature: a second signature of the same
\* message by the same key, one by another key, one of another message.
OtherSignatures(cfrag) ==
    LET sig == cfrag.proof.kfrag_signature
        message == ValidityMessageOf(cfrag)
    IN ({UmbralPrivateKey_sign(signing_privkey, message, k) : k \in KeyChoices}
        \cup {UmbralPrivateKey_sign(sk, message, sig.k) : sk \in KeyChoices}
        \cup {UmbralPrivateKey_sign(signing_privkey, Tail(message), sig.k)})
       \ {sig}

\* Every fragment that differs from cfrag in exactly one field, each field
\* ranging over the values of its type that have an encoding.
Tampered(cfrag) ==
    {[cfrag EXCEPT !.point_e1 = p] : p \in NonIdentityPoint \ {cfrag.point_e1}}
    \cup {[cfrag EXCEPT !.point_v1 = p] : p \in NonIdentityPoint \ {cfrag.point_v1}}
    \cup {[cfrag EXCEPT !.kfrag_id = x] : x \in CurveScalar \ {cfrag.kfrag_id}}
    \cup {[cfrag EXCEPT !.precursor = p] : p \in NonIdentityPoint \ {cfrag.precursor}}
    \cup {[cfrag EXCEPT !.proof.point_e2 = p] :
             p \in NonIdentityPoint \ {cfrag.proof.point_e2}}
    \cup {[cfrag EXCEPT !.proof.point_v2 = p] :
             p \in NonIdentityPoint \ {cfrag.proof.point_v2}}
    \cup {[cfrag EXCEPT !.proof.kfrag_commitment = p] :
             p \in NonIdentityPoint \ {cfrag.proof.kfrag_commitment}}
    \cup {[cfrag EXCEPT !.proof.kfrag_pok = p] :
             p \in NonIdentityPoint \ {cfrag.proof.kfrag_pok}}
    \cup {[cfrag EXCEPT !.proof.signature = x] : x \in CurveScalar \ {cfrag.proof.signature}}
    \cup {[cfrag EXCEPT !.proof.metadata = x] : x \in CurveScalar \ {cfrag.proof.metadata}}
    \cup {[cfrag EXCEPT !.proof.kfrag_signature = sig] : sig \in OtherSignatures(cfrag)}

\* prepared_capsule.verify_cfrag(&cfrag) on a fragment that reached Bob with
\* one field changed.
VerifyTamperedCFrag ==
    /\ pc = "reencrypted_one"
    /\ \E cfrag \in Tampered(cfrags[1]) :
          /\ presented' = <<cfrag>>
          /\ checked' = VerifyOutcome(cfrag)
    /\ pc' = "tampered_verified"
    /\ UNCHANGED <<hk, call_args, delegating_privkey, kemVars, out, keyVars, objects,
                   kfrags, cfrags, decrypting_privkey>>

\* prepared_capsule.reencrypt(&kfrag, metadata, verify_kfrag) by a proxy that
\* holds the KFrag of the delegation or one with another key scalar.
ReencryptWith ==
    /\ pc = "delegated"
    /\ \E key \in CurveScalar, metadata \in Metadatas, verify_kfrag \in BOOLEAN,
          t \in KeyChoices :
          LET kfrag == [kfrags[1] EXCEPT !.key = key]
              r == PreparedCapsule_reencrypt(prepared_capsule, kfrag, metadata,
                                             verify_kfrag, t)
          IN /\ call_args' = [kfrag |-> kfrag, metadata |-> metadata,
                              verify_kfrag |-> verify_kfrag, t |-> t]
             /\ out' = [tag |-> r.tag, val |-> r.cfrag]
    /\ pc' = "reencrypted_with"
    /\ UNCHANGED <<hk, delegating_privkey, kemVars, checked, keyVars, objects, fragVars>>

NextProof ==
    \/ SourceEncrypt
    \/ Delegate
    \/ ProxyReencrypt
    \/ VerifyCFrag
    \/ VerifyTamperedCFrag
    \/ ReencryptWith

SpecProof == InitProof /\ [][NextProof]_vars

\* C6: a capsule fragment that a proxy made from a KFrag of the delegation
\* and the capsule, for any metadata and any nonzero t, passes verification
\* against the capsule and the delegating, receiving and signing keys of
\* that delegation.
C6_HonestCFragVerifies ==
    pc = "verified" => checked = "True"

C6_Witness ==
    /\ pc = "verified"
    /\ checked = "True"
    /\ cfrags[1].proof.metadata # 0
    /\ cfrags[1].proof.point_e2 # capsule.point_e
    /\ cfrags[1].point_e1 # capsule.point_e


\* The challenge CapsuleFrag::verify derives for a fragment: the digest of
\* the metadata scalar and of (E, E1, E2, V, V1, V2, u, U1, U2).
ChallengeOf(cfrag) ==
    ScalarDigest(Block(scalar_to_bytes(cfrag.proof.metadata))
                    \o Blocks(<<capsule.point_e, cfrag.point_e1, cfrag.proof.point_e2,
                                capsule.point_v, cfrag.point_v1, cfrag.proof.point_v2,
                                ParamsU, cfrag.proof.kfrag_commitment,
                                cfrag.proof.kfrag_pok>>))

\* The changed field is one the challenge is a digest of.
ChallengeInputChanged ==
    \/ presented[1].point_e1 # cfrags[1].point_e1
    \/ presented[1].point_v1 # cfrags[1].point_v1
    \/ presented[1].proof.point_e2 # cfrags[1].proof.point_e2
    \/ presented[1].proof.point_v2 # cfrags[1].proof.point_v2
    \/ presented[1].proof.kfrag_commitment # cfrags[1].proof.kfrag_commitment
    \/ presented[1].proof.kfrag_pok # cfrags[1].proof.kfrag_pok
    \/ presented[1].proof.metadata # cfrags[1].proof.metadata

\* The changed fragment hashes to the challenge of the fragment it was made
\* from: a collision of the digest.
ChallengeCollides ==
    /\ ChallengeInputChanged
    /\ ChallengeOf(presented[1]) = ChallengeOf(cfrags[1])

\* The changed field is kfrag_signature, and its new value is a signature
\* of the validity message by the signing key.
Resigned ==
    /\ presented[1].proof.kfrag_signature # cfrags[1].proof.kfrag_signature
    /\ UmbralPublicKey_verify(get_pubkey(signing_privkey),
                              ValidityMessageOf(presented[1]),
                              presented[1].proof.kfrag_signature)

\* The changed field is one that only the challenge binds: with it changed
\* and the challenge unchanged the three equations read as before, or read
\* as before when the challenge is zero.
BoundByChallengeOnly ==
    \/ presented[1].point_e1 # cfrags[1].point_e1
    \/ presented[1].point_v1 # cfrags[1].point_v1
    \/ presented[1].proof.metadata # cfrags[1].proof.metadata

\* C7 as stated, digest collisions apart: a fragment with any single field
\* changed fails verification.
C7_AnyChangeRejected ==
    (pc = "tampered_verified" /\ ~ChallengeCollides) => checked = "False"

\* C7: a fragment with a single field changed (E1, V1, kfrag_id, precursor,
\* E2, V2, U1, U2, z3, the metadata scalar or the KFrag signature) fails
\* verification, unless the change replaces the KFrag signature by another
\* signature of the same message by the signing key, or the change is to
\* E1, V1 or the metadata scalar and the digest collides.
C7_ChangeRejectedUnlessResigned ==
    (/\ pc = "tampered_verified"
     /\ ~Resigned
     /\ ~(BoundByChallengeOnly /\ ChallengeCollides)) => checked = "False"

C7_Witness ==
    /\ pc = "tampered_verified"
    /\ checked = "False"
    /\ presented[1].proof.point_e2 # cfrags[1].proof.point_e2
    /\ ChallengeCollides

\* C8: a fragment made with metadata m1 whose metadata scalar is replaced by
\* the scalar of another metadata m2 fails verification, whenever the
\* challenge over the replaced scalar differs from the challenge of the
\* proof.
C8_MetadataBound ==
    (/\ pc = "tampered_verified"
     /\ presented[1].proof.metadata # cfrags[1].proof.metadata
     /\ \E m2 \in Metadatas : presented[1].proof.metadata = metadata_scalar(m2)
     /\ ~ChallengeCollides) => checked = "False"

C8_Witness ==
    /\ pc = "tampered_verified"
    /\ checked = "False"
    /\ cfrags[1].proof.metadata = metadata_scalar(<<<<1>>>>)
    /\ presented[1].proof.metadata = metadata_scalar(<<<<2>>>>)
    /\ presented[1].proof.metadata # cfrags[1].proof.metadata
    /\ ~ChallengeCollides


\* The scalars t the proxies draw, one per proxy.
ProxyNonces(n) == {[i \in 1 .. n |-> ((i - 1) % (Q - 1)) + 1]}

\* prepared_capsule.reencrypt(&kfrag, None, true) by every proxy.
ProxiesReencrypt ==
    /\ pc = "delegated"
    /\ \E ts \in ProxyNonces(num_kfrags) :
          LET r == [i \in 1 .. num_kfrags |->
                       PreparedCapsule_reencrypt(prepared_capsule, kfrags[i], <<>>, TRUE,
                                                 ts[i])]
          IN IF \A i \in 1 .. num_kfrags : r[i].tag = "Some"
             THEN /\ pc' = "reencrypted"
                  /\ cfrags' = [i \in 1 .. num_kfrags |-> r[i].cfrag]
             ELSE /\ pc' = "reencrypt_failed"
                  /\ UNCHANGED cfrags
    /\ UNCHANGED <<hk, call_args, delegating_privkey, kemVars, out, checked, keyVars, objects,
                   kfrags, presented, decrypting_privkey>>

\* decrypt_reencrypted(&ciphertext, &prepared_capsule, &cfrags, &receiving_privkey,
\* check_proof) by Bob, on any nonempty subset of the fragments.
DecryptReencrypted ==
    /\ pc = "reencrypted"
    /\ \E sel \in Selections(num_kfrags), check_proof \in BOOLEAN :
          LET subset == [i \in 1 .. Len(sel) |-> cfrags[sel[i]]]
          IN /\ presented' = subset
             /\ out' = decrypt_reencrypted(ciphertext, prepared_capsule, subset,
                                           receiving_privkey, check_proof)
    /\ decrypting_privkey' = receiving_privkey
    /\ pc' = "decrypted_reencrypted"
    /\ UNCHANGED <<hk, call_args, delegating_privkey, kemVars, checked, keyVars, objects, kfrags, cfrags>>

\* decrypt_reencrypted by the holder of another secret key, on all fragments.
DecryptWithOtherKey ==
    /\ pc = "reencrypted"
    /\ \E sk \in OtherKeyChoices \ {receiving_privkey}, check_proof \in BOOLEAN :
          /\ decrypting_privkey' = sk
          /\ out' = decrypt_reencrypted(ciphertext, prepared_capsule, cfrags, sk,
                                        check_proof)
    /\ presented' = cfrags
    /\ pc' = "decrypted_other_key"
    /\ UNCHANGED <<hk, call_args, delegating_privkey, kemVars, checked, keyVars, objects, kfrags, cfrags>>

\* decrypt_reencrypted by Bob on the first t fragments, one of them being a
\* re-encryption of another capsule for the same delegating key.
DecryptWithForeignCFrag ==
    /\ pc = "reencrypted"
    /\ \E priv_r \in KeyChoices, priv_u \in KeyChoices, j \in 1 .. threshold,
          check_proof \in BOOLEAN :
          LET kem == Capsule_from_pubkey(get_pubkey(delegating_privkey), priv_r, priv_u)
              other == with_correctness_keys(kem.capsule, get_pubkey(delegating_privkey),
                                             get_pubkey(receiving_privkey),
                                             get_pubkey(signing_privkey))
              r == PreparedCapsule_reencrypt(other, kfrags[j], <<>>, TRUE, 1)
              mixed == [i \in 1 .. threshold |-> IF i = j THEN r.cfrag ELSE cfrags[i]]
          IN /\ ~kem.panic
             /\ kem.capsule # capsule
             /\ r.tag = "Some"
             /\ presented' = mixed
             /\ call_args' = [check_proof |-> check_proof]
             /\ out' = decrypt_reencrypted(ciphertext, prepared_capsule, mixed,
                                           receiving_privkey, check_proof)
    /\ decrypting_privkey' = receiving_privkey
    /\ pc' = "decrypted_foreign"
    /\ UNCHANGED <<hk, delegating_privkey, kemVars, checked, keyVars, objects, kfrags, cfrags>>

\* decrypt_reencrypted by Bob on the first t fragments (t >= 2), the last of
\* them carrying another precursor than the first.
DecryptWithMixedPrecursors ==
    /\ pc = "reencrypted"
    /\ threshold >= 2
    /\ \E p \in NonIdentityPoint \ {cfrags[1].precursor}, check_proof \in BOOLEAN :
          LET mixed == [i \in 1 .. threshold |->
                           IF i = threshold THEN [cfrags[i] EXCEPT !.precursor = p]
                           ELSE cfrags[i]]
          IN /\ presented' = mixed
             /\ call_args' = [check_proof |-> check_proof]
             /\ out' = decrypt_reencrypted(ciphertext, prepared_capsule, mixed,
                                           receiving_privkey, check_proof)
    /\ decrypting_privkey' = receiving_privkey
    /\ pc' = "decrypted_mixed"
    /\ UNCHANGED <<hk, delegating_privkey, kemVars, checked, keyVars, objects, kfrags, cfrags>>

NextPre ==
    \/ SourceEncrypt
    \/ Delegate
    \/ ProxiesReencrypt
    \/ DecryptReencrypted
    \/ DecryptWithOtherKey
    \/ DecryptWithForeignCFrag
    \/ DecryptWithMixedPrecursors

SpecPre == InitPre /\ [][NextPre]_vars

\* What open_reencrypted derives from the presented fragments under sk.
SharePointsFor(sk) ==
    <<presented[1].precursor, get_pubkey(sk), PMul(presented[1].precursor, sk)>>

ShareIndicesFor(sk) == LambdaCoeffHeap_new(presented, SharePointsFor(sk)).xs

DistinctShares(sk) ==
    LET xs == ShareIndicesFor(sk)
    IN \A i \in 1 .. Len(xs) : \A j \in 1 .. Len(xs) : i # j => xs[i] # xs[j]

\* The consistency check of open_reencrypted_generic on the presented
\* fragments under sk.
ConsistentFor(sk) ==
    LET points == SharePointsFor(sk)
        d == NonInteractiveDigest(points[1], points[2], points[3])
        h == ScalarDigest(Blocks(<<capsule.point_e, capsule.point_v>>))
    IN /\ invert_is_some(d)
       /\ ConsistencyCheck(get_pubkey(delegating_privkey), capsule.signature, d, h,
                           CombineE(presented, ShareIndicesFor(sk), 1),
                           CombineV(presented, ShareIndicesFor(sk), 1))

\* C2: for a t-of-N delegation and every subset of k fragments, t <= k <= N,
\* made from KFrags with pairwise distinct share indices, decrypt_reencrypted
\* with Bob's secret key returns Some(plaintext).
C2_ThresholdReconstruction ==
    (/\ pc = "decrypted_reencrypted"
     /\ Len(presented) >= threshold
     /\ DistinctShares(receiving_privkey)) =>
        out = [tag |-> "Some", val |-> plain_data, why |-> ""]

C2_Witness ==
    /\ pc = "decrypted_reencrypted"
    /\ threshold = 2
    /\ Len(presented) = 3
    /\ DistinctShares(receiving_privkey)
    /\ out.tag = "Some"
    /\ out.val = plain_data
    /\ kfrags[1].key # kfrags[2].key


\* Fewer fragments than the threshold were presented to Bob's decryption.
BelowThreshold == pc = "decrypted_reencrypted" /\ Len(presented) < threshold

\* The presented fragments combine to what a full set combines to: the
\* polynomial of the delegation, interpolated through their shares alone,
\* takes the value sk_a / d at zero.
CoincidesWithSecret ==
    LET points == SharePointsFor(receiving_privkey)
        d == NonInteractiveDigest(points[1], points[2], points[3])
    IN /\ DistinctShares(receiving_privkey)
       /\ CombineE(presented, ShareIndicesFor(receiving_privkey), 1)
             = PMul(capsule.point_e, SMul(delegating_privkey, invert(d)))

\* C3 as stated: with fewer than t fragments decrypt_reencrypted never
\* returns the plaintext.
C3_BelowThresholdNeverDecrypts ==
    BelowThreshold => ~(out.tag = "Some" /\ out.val = plain_data)

\* C3: with k < t fragments whose shares alone do not interpolate to the
\* secret, decrypt_reencrypted does not return the plaintext: the Lagrange
\* step or the consistency check stops the call, or, for a capsule with
\* s = 0, which passes the check with any combination, the derived key is
\* wrong and the call ends without a plaintext.
C3_BelowThresholdFails ==
    (BelowThreshold /\ ~CoincidesWithSecret) =>
        \/ out.tag = "Panic" /\ out.why \in {"lambda", "consistency"}
        \/ capsule.signature = 0 /\ out.tag \in {"None", "Panic"}

C3_Witness ==
    /\ BelowThreshold
    /\ ~CoincidesWithSecret
    /\ Len(presented) = 2
    /\ DistinctShares(receiving_privkey)
    /\ capsule.signature # 0
    /\ out.tag = "Panic"
    /\ out.why = "consistency"

\* C9: with the fragments of a delegation to Bob, decrypt_reencrypted under
\* another secret key, for which the fragments are not consistent with the
\* capsule, ends in a failure value: InvalidCFragSet or a failed decryption.
C9_OtherKeyEndsInFailureValue ==
    (/\ pc = "decrypted_other_key"
     /\ DistinctShares(decrypting_privkey)
     /\ ~ConsistentFor(decrypting_privkey)) =>
        out.tag \in {"InvalidCFragSet", "None"}

\* C10: with one fragment of a threshold set made from another capsule, so
\* that the set is not consistent with the capsule being opened,
\* decrypt_reencrypted reports InvalidCFragSet, a failure value.
C10_ForeignCFragReported ==
    (/\ pc = "decrypted_foreign"
     /\ DistinctShares(receiving_privkey)
     /\ ~ConsistentFor(receiving_privkey)) =>
        out.tag \in {"InvalidCFragSet", "None"}

\* C11: when the fragments passed to decrypt_reencrypted carry differing
\* precursors, or the reconstruction check pk_a*(s/d) = h*E' + V' fails,
\* decrypt_reencrypted returns a failure value and does not abort.
C11_InvalidSetIsFailureValue ==
    (\/ pc = "decrypted_mixed"
     \/ /\ pc \in {"decrypted_reencrypted", "decrypted_other_key", "decrypted_foreign"}
        /\ DistinctShares(decrypting_privkey)
        /\ ~ConsistentFor(decrypting_privkey)) =>
        out.tag \in {"InvalidCFragSet", "None"}

(***************************************************************************)
(* The session that studies the KFrags of a delegation: which calls of     *)
(* KeyFrag::verify succeed, and whether the proxies accept them.           *)
(***************************************************************************)
\* generate_kfrags with any choice of sign_delegating_key, sign_receiving_key.
DelegateWithFlags ==
    /\ pc = "encrypted_for"
    /\ \E x_a \in KeyChoices, coeffs \in CoeffSeqs(threshold - 1),
          ids \in IdSeqs(num_kfrags), sign_delegating_key \in BOOLEAN,
          sign_receiving_key \in BOOLEAN :
          LET r == generate_kfrags(delegating_privkey, get_pubkey(receiving_privkey),
                                   signing_privkey, threshold, ids, sign_delegating_key,
                                   sign_receiving_key, x_a, coeffs, 1)
          IN IF r.panic
             THEN /\ pc' = "delegate_panicked"
                  /\ UNCHANGED kfrags
             ELSE /\ pc' = "delegated"
                  /\ kfrags' = r.kfrags
    /\ UNCHANGED <<hk, call_args, delegating_privkey, kemVars, out, checked, keyVars, objects,
                   cfrags, presented, decrypting_privkey>>

\* kfrags.iter().all(|kfrag| kfrag.verify(&signing_pubkey, maybe_delegating,
\* maybe_receiving)), each key being absent, the right one, or another one.
VerifyKFrag ==
    /\ pc = "delegated"
    /\ \E maybe_delegating \in {<<>>, <<get_pubkey(delegating_privkey)>>,
                                <<get_pubkey(delegating_privkey + 1)>>},
          maybe_receiving \in {<<>>, <<get_pubkey(receiving_privkey)>>,
                               <<get_pubkey(receiving_privkey + 1)>>} :
          /\ call_args' = [maybe_delegating |-> maybe_delegating,
                           maybe_receiving |-> maybe_receiving]
          /\ checked' = IF \A i \in 1 .. num_kfrags :
                               KeyFrag_verify(kfrags[i], get_pubkey(signing_privkey),
                                              maybe_delegating, maybe_receiving)
                        THEN "True" ELSE "False"
    /\ pc' = "kfrag_verified"
    /\ UNCHANGED <<hk, delegating_privkey, kemVars, out, keyVars, objects, fragVars>>

NextKFrag ==
    \/ SourceEncrypt
    \/ DelegateWithFlags
    \/ VerifyKFrag
    \/ ProxiesReencrypt

SpecKFrag == InitPre /\ [][NextKFrag]_vars

\* The verify call was given the delegating key, resp. the receiving key, of
\* the delegation.
DelegatingKeyPassed == call_args.maybe_delegating = <<get_pubkey(delegating_privkey)>>

ReceivingKeyPassed == call_args.maybe_receiving = <<get_pubkey(receiving_privkey)>>

\* C12 as stated: kfrag.verify is true only when the keys passed are exactly
\* those the two flags selected at generation (a key for a set flag, None for
\* a flag not set).
C12_VerifyOnlyWithExactKeys ==
    pc = "kfrag_verified" =>
        (checked = "True" <=>
            /\ call_args.maybe_delegating =
                  (IF kfrags[1].delegating_key_signed
                   THEN <<get_pubkey(delegating_privkey)>> ELSE <<>>)
            /\ call_args.maybe_receiving =
                  (IF kfrags[1].receiving_key_signed
                   THEN <<get_pubkey(receiving_privkey)>> ELSE <<>>))

\* C12: kfrag.verify is true exactly when every key the flags selected at
\* generation is passed and is the key that was signed; what is passed for a
\* flag that was not set makes no difference. With sign_delegating_key = false
\* and sign_receiving_key = true, verify(pk_signer, None, Some(pk_bob)) is true.
C12_VerifyIffSignedKeysPassed ==
    pc = "kfrag_verified" =>
        (checked = "True" <=>
            /\ kfrags[1].delegating_key_signed => DelegatingKeyPassed
            /\ kfrags[1].receiving_key_signed => ReceivingKeyPassed)

C12_Witness ==
    /\ pc = "kfrag_verified"
    /\ ~kfrags[1].delegating_key_signed
    /\ kfrags[1].receiving_key_signed
    /\ call_args.maybe_delegating = <<>>
    /\ ReceivingKeyPassed
    /\ checked = "True"

\* C13: every KFrag generated with sign_delegating_key = false and
\* sign_receiving_key = false passes verify(signing_pubkey,
\* Some(delegating_pubkey), Some(receiving_pubkey)), and reencrypt(kfrag, None,
\* true) returns Some(cfrag) for each of them.
C13_UnsignedKeysKFragsAccepted ==
    (/\ pc \in {"kfrag_verified", "reencrypted", "reencrypt_failed"}
     /\ \A i \in 1 .. num_kfrags :
           ~kfrags[i].delegating_key_signed /\ ~kfrags[i].receiving_key_signed) =>
        /\ (pc = "kfrag_verified" /\ DelegatingKeyPassed /\ ReceivingKeyPassed) =>
               checked = "True"
        /\ pc # "reencrypt_failed"

C13_Witness ==
    /\ pc = "reencrypted"
    /\ num_kfrags = 3
    /\ Len(cfrags) = 3
    /\ \A i \in 1 .. num_kfrags :
          ~kfrags[i].delegating_key_signed /\ ~kfrags[i].receiving_key_signed

(***************************************************************************)
(* The heapless session (test_simple_api_heapless): the data source        *)
(* encrypts in place, and Bob decrypts in place with a container of        *)
(* Threshold Lagrange coefficients.                                        *)
(***************************************************************************)
\* encrypt_in_place(&params, &mut buffer, &delegating_pubkey) on a buffer that
\* has just the room for the tag and the nonce.
SourceEncryptInPlace ==
    /\ pc = "keys"
    /\ \E msg \in DelegatedPlaintexts, priv_r \in KeyChoices, priv_u \in KeyChoices,
          nonce \in DelegatedNonces :
          LET r == encrypt_in_place([bytes |-> msg,
                                     cap |-> Len(msg) + TagSize + NonceSize],
                                    get_pubkey(delegating_privkey), priv_r, priv_u, nonce)
          IN /\ plain_data' = msg
             /\ buffer' = r.buf
             /\ capsule' = r.capsule
             /\ pc' = IF r.tag = "Some" THEN "encrypted_for" ELSE "encrypt_panicked"
    /\ UNCHANGED <<hk, call_args, delegating_privkey, ciphertext, out, checked, keyVars, objects,
                   fragVars>>

\* decrypt_reencrypted_in_place::<Threshold>(&mut buffer, &prepared_capsule,
\* &cfrags, &receiving_privkey, check_proof) by Bob, Threshold being the
\* threshold of the delegation, on any nonempty subset of the fragments.
DecryptReencryptedInPlace ==
    /\ pc = "reencrypted"
    /\ \E sel \in Selections(num_kfrags), check_proof \in BOOLEAN :
          LET subset == [i \in 1 .. Len(sel) |-> cfrags[sel[i]]]
              r == decrypt_reencrypted_in_place(threshold, buffer, prepared_capsule, subset,
                                                receiving_privkey, check_proof)
          IN /\ presented' = subset
             /\ out' = [tag |-> r.tag, val |-> r.buf.bytes, why |-> r.why]
             /\ buffer' = r.buf
    /\ decrypting_privkey' = receiving_privkey
    /\ pc' = "decrypted_reencrypted_in_place"
    /\ UNCHANGED <<hk, call_args, delegating_privkey, plain_data, capsule, ciphertext, checked,
                   keyVars, objects, kfrags, cfrags>>

NextHeapless ==
    \/ SourceEncryptInPlace
    \/ Delegate
    \/ ProxiesReencrypt
    \/ DecryptReencryptedInPlace

SpecHeapless == InitPre /\ [][NextHeapless]_vars

\* C14: for a delegation whose threshold is the type parameter Threshold,
\* decrypt_reencrypted_in_place::<Threshold> on the buffer encrypt_in_place
\* filled, with exactly Threshold fragments of KFrags with pairwise distinct
\* share indices, returns Some(()) and leaves the plaintext in the buffer.
C14_HeaplessThresholdDecrypts ==
    (/\ pc = "decrypted_reencrypted_in_place"
     /\ Len(presented) = threshold
     /\ DistinctShares(receiving_privkey)) =>
        /\ out.tag = "Some"
        /\ buffer.bytes = plain_data

C14_Witness ==
    /\ pc = "decrypted_reencrypted_in_place"
    /\ threshold = 2
    /\ num_kfrags = 3
    /\ Len(presented) = 2
    /\ presented[1] = cfrags[2]
    /\ presented[2] = cfrags[3]
    /\ DistinctShares(receiving_privkey)
    /\ out.tag = "Some"
    /\ buffer.bytes = plain_data
    /\ buffer.cap = MaxMsgLen + TagSize + NonceSize


\* C21: for the same capsule, keys and fragments, k >= Threshold of them,
\* open_reencrypted_heapless::<Threshold> returns the key seed that
\* open_reencrypted returns, also when k > Threshold.
C21_HeaplessAgreesWithHeap ==
    (pc = "decrypted_reencrypted_in_place" /\ Len(presented) >= threshold) =>
        Capsule_open_reencrypted_heapless(threshold, capsule, receiving_privkey,
                                          get_pubkey(delegating_privkey), presented)
          = Capsule_open_reencrypted(capsule, receiving_privkey,
                                     get_pubkey(delegating_privkey), presented)

\* The same for exactly Threshold fragments.
C21_HeaplessAgreesWithHeapAtThreshold ==
    (pc = "decrypted_reencrypted_in_place" /\ Len(presented) = threshold) =>
        Capsule_open_reencrypted_heapless(threshold, capsule, receiving_privkey,
                                          get_pubkey(delegating_privkey), presented)
          = Capsule_open_reencrypted(capsule, receiving_privkey,
                                     get_pubkey(delegating_privkey), presented)

\* C22: when two of the fragments passed to open_reencrypted carry the same
\* kfrag_id, the Lagrange coefficient inverts a zero difference and the call
\* aborts there; no key seed comes back, so decryption has no result.
C22_DuplicateSharesAbort ==
    (/\ pc = "decrypted_reencrypted"
     /\ \E i \in 1 .. Len(presented) : \E j \in 1 .. Len(presented) :
           i # j /\ presented[i].kfrag_id = presented[j].kfrag_id) =>
        /\ out.tag = "Panic"
        /\ out.why = "lambda"

C22_Witness ==
    /\ pc = "decrypted_reencrypted"
    /\ Len(presented) = 3
    /\ presented[1].kfrag_id # presented[2].kfrag_id
    /\ presented[2].kfrag_id = presented[3].kfrag_id
    /\ presented[2] # presented[3]
    /\ out.tag = "Panic"
    /\ out.why = "lambda"

\* C23: with check_proof = true, open_reencrypted and
\* open_reencrypted_heapless return a key seed only if verify_cfrag is true
\* for every fragment passed; if one fails, the call stops at the proofs:
\* no seed is produced and the reconstruction is not started.
C23_ProofCheckGatesReconstruction ==
    (pc \in {"decrypted_foreign", "decrypted_mixed"} /\ call_args.check_proof) =>
        LET all_verify == \A i \in 1 .. Len(presented) : VerifyOutcome(presented[i]) = "True"
            heapless == PreparedCapsule_open_reencrypted_heapless(
                            threshold, prepared_capsule, presented, receiving_privkey, TRUE)
        IN /\ out.tag \in {"Some", "None"} => all_verify
           /\ heapless.tag = "Ok" => all_verify
           /\ ~all_verify => /\ out.tag = "Panic" /\ out.why = "proof"
                              /\ heapless.tag = "Panic" /\ heapless.why = "proof"

C23_Witness ==
    /\ pc = "decrypted_mixed"
    /\ call_args.check_proof
    /\ Len(presented) = MaxKFrags
    /\ VerifyOutcome(presented[1]) = "True"
    /\ VerifyOutcome(presented[MaxKFrags]) = "False"
    /\ out.tag = "Panic"
    /\ out.why = "proof"

\* C24: reencrypt(kfrag, metadata, verify_kfrag) returns None exactly when
\* verify_kfrag is true and kfrag.verify(verifying_key, Some(delegating_key),
\* Some(receiving_key)) is false; in every other case it returns Some of the
\* fragment CapsuleFrag::from_kfrag builds on the bound capsule, so that with
\* verify_kfrag = false the KFrag is not checked.
C24_KFragCheckGatesReencryption ==
    pc = "reencrypted_with" =>
        LET rejected == /\ call_args.verify_kfrag
                        /\ ~PreparedCapsule_verify_kfrag(prepared_capsule, call_args.kfrag)
        IN /\ rejected <=> out.tag = "None"
           /\ ~rejected =>
                 /\ out.tag = "Some"
                 /\ out.val = CapsuleFrag_from_kfrag(capsule, call_args.kfrag,
                                                     call_args.metadata, call_args.t).cfrag

\* The same for the KFrags whose key scalar is not 0.
C24_NonZeroKeyKFragCheckGatesReencryption ==
    (pc = "reencrypted_with" /\ call_args.kfrag.key # 0) =>
        LET rejected == /\ call_args.verify_kfrag
                        /\ ~PreparedCapsule_verify_kfrag(prepared_capsule, call_args.kfrag)
        IN /\ rejected <=> out.tag = "None"
           /\ ~rejected =>
                 /\ out.tag = "Some"
                 /\ out.val = CapsuleFrag_from_kfrag(capsule, call_args.kfrag,
                                                     call_args.metadata, call_args.t).cfrag

\* C25: the fragment reencrypt returns for the capsule (E, V, s) and a KFrag
\* has E1 = key*E, V1 = key*V, the id and the precursor of the KFrag, and a
\* proof with E2 = t*E, V2 = t*V, U2 = t*u for one nonzero t, U1 the KFrag's
\* commitment and z3 = t + key*h, h being the challenge over
\* (E, E1, E2, V, V1, V2, u, U1, U2) and the metadata scalar.
C25_CFragContents ==
    (pc = "reencrypted_with" /\ out.tag = "Some") =>
        LET cfrag == out.val
            kfrag == call_args.kfrag
            t == call_args.t
            e == capsule.point_e
            v == capsule.point_v
            h == hash_to_scalar(<<e, cfrag.point_e1, cfrag.proof.point_e2,
                                  v, cfrag.point_v1, cfrag.proof.point_v2,
                                  ParamsU, cfrag.proof.kfrag_commitment,
                                  cfrag.proof.kfrag_pok>>,
                                Block(scalar_to_bytes(cfrag.proof.metadata)))
        IN /\ cfrag.point_e1 = PMul(e, kfrag.key)
           /\ cfrag.point_v1 = PMul(v, kfrag.key)
           /\ cfrag.kfrag_id = kfrag.id
           /\ cfrag.precursor = kfrag.precursor
           /\ t # 0
           /\ cfrag.proof.point_e2 = PMul(e, t)
           /\ cfrag.proof.point_v2 = PMul(v, t)
           /\ cfrag.proof.kfrag_pok = PMul(ParamsU, t)
           /\ cfrag.proof.kfrag_commitment = kfrag.commitment
           /\ cfrag.proof.metadata = metadata_scalar(call_args.metadata)
           /\ cfrag.proof.signature = SAdd(t, SMul(kfrag.key, h))
           /\ PMul(v, cfrag.proof.signature)
                 = PAdd(cfrag.proof.point_v2, PMul(cfrag.point_v1, h))

C25_Witness ==
    /\ pc = "reencrypted_with"
    /\ out.tag = "Some"
    /\ ~call_args.verify_kfrag
    /\ call_args.t = MaxKey
    /\ call_args.metadata # <<>>
    /\ call_args.kfrag.key # kfrags[1].key
    /\ capsule.point_e # capsule.point_v
    /\ out.val.point_e1 # out.val.point_v1

\* C26: decrypt_in_place and decrypt_original_in_place return None for every
\* buffer that is not a valid ciphertext under the key and the capsule, also
\* for a buffer shorter than the nonce, and never abort.
C26_InvalidBufferGivesNone ==
    pc = "decrypted_other_buffer" => out.tag = "None"

\* The same for the buffers that hold at least the NonceSize bytes of a nonce.
C26_InvalidBufferWithNonceGivesNone ==
    (pc = "decrypted_other_buffer" /\ Len(call_args.bytes) >= NonceSize) =>
        out.tag = "None"

\* C27: encrypt_in_place returns Some(capsule) exactly when the buffer can
\* grow by the TagSize bytes of the tag and then by the NonceSize bytes of
\* the nonce, and the buffer is then the plaintext length + 28 bytes long;
\* when an append fails it returns None and the caller gets no capsule.
C27_InPlaceResultFollowsRoom ==
    LET needed == Len(plain_data) + TagSize + NonceSize
    IN /\ pc = "encrypted_in_place" =>
             /\ buffer.cap >= needed
             /\ Len(buffer.bytes) = needed
             /\ capsule # NoCapsule
       /\ pc = "encrypt_in_place_none" =>
             /\ buffer.cap < needed
             /\ Len(buffer.bytes) < needed
             /\ capsule = NoCapsule

C27_Witness ==
    /\ pc = "encrypt_in_place_none"
    /\ Len(plain_data) = MaxMsgLen
    /\ buffer.cap = MaxMsgLen + TagSize
    /\ Len(buffer.bytes) = MaxMsgLen + TagSize
    /\ capsule = NoCapsule

\* C28: unsafe_hash_to_point(data, label) returns the candidate of the
\* smallest counter i = 0, 1, 2, ... whose candidate (the sign byte 2 if the
\* first digest byte is even, else 3, then the next 32 digest bytes) decodes
\* to a curve point, which is not the identity; it returns None only when no
\* counter below the limit has such a candidate.
C28_HashToPointTryAndIncrement ==
    pc = "hashed" =>
        LET data == call_args.data
            label == call_args.label
            Digest(i) == Blake2bPrefix(to_fixed_be_bytes(Len(label)) \o label
                                        \o to_fixed_be_bytes(Len(data)) \o data
                                        \o to_fixed_be_bytes(i))
            Candidate(i) == <<2 + (Digest(i)[1] % 2)>>
                              \o SubSeq(Digest(i), 2, CurveCompressedPointSize)
            Decodes(i) == bytes_to_point(Candidate(i)).tag = "Some"
        IN /\ out.tag \in {"Some", "None"}
           /\ out.tag = "None" <=> \A i \in 0 .. (CounterMax - 1) : ~Decodes(i)
           /\ out.tag = "Some" =>
                 \E i \in 0 .. (CounterMax - 1) :
                    /\ Decodes(i)
                    /\ \A j \in 0 .. (i - 1) : ~Decodes(j)
                    /\ point_to_bytes(out.val) = Candidate(i)
                    /\ out.val # Identity

C28_Witness ==
    /\ pc = "hashed"
    /\ out.tag = "Some"
    /\ call_args.data # <<>>
    /\ LET first == Blake2bPrefix(to_fixed_be_bytes(Len(call_args.label)) \o call_args.label
                                    \o to_fixed_be_bytes(Len(call_args.data)) \o call_args.data
                                    \o to_fixed_be_bytes(0))
       IN bytes_to_point(<<2 + (first[1] % 2)>> \o Tail(first)).tag = "None"

(***************************************************************************)
(* umbral-pre-wasm: a CapsuleWithFrags is built one fragment at a time,    *)
(* by Capsule::with_cfrag and then CapsuleWithFrags::with_cfrag, each of   *)
(* which returns a new object.  objects holds the objects made so far, and *)
(* call_args the receiver and the fragment of the call that made each.     *)
(***************************************************************************)
MaxObjects == 3

\* The session of the binding: a delegation of two fragments.
InitWasm ==
    /\ InitKeys
    /\ num_kfrags = 2
    /\ threshold = 1

\* A with_cfrag that leaves out a fragment the list already holds.
CapsuleWithFrags_with_cfrag_deduplicating(self, cfrag) ==
    LET new_cfrags == IF \E i \in 1 .. Len(self.cfrags) : self.cfrags[i] = cfrag
                      THEN self.cfrags
                      ELSE Append(self.cfrags, cfrag)
    IN [capsule |-> self.capsule, cfrags |-> new_cfrags]

CapsuleWithFrags_with_cfrag(self, cfrag) ==
    LET new_cfrags == Append(self.cfrags, cfrag)
    IN [capsule |-> self.capsule, cfrags |-> new_cfrags]

\* capsule.with_cfrag(&cfrag) on the capsule of the encryption result.
CapsuleWithCFrag ==
    /\ pc \in {"reencrypted", "with_cfrag"}
    /\ Len(objects) < MaxObjects
    /\ \E i \in 1 .. Len(cfrags) :
          /\ objects' = Append(objects, [capsule |-> Capsule_to_bytes(capsule),
                                          cfrags |-> <<cfrags[i]>>])
          /\ call_args' = Append(call_args, [self |-> 0, cfrag |-> cfrags[i]])
    /\ pc' = "with_cfrag"
    /\ UNCHANGED <<hk, delegating_privkey, kemVars, out, checked, keyVars, fragVars>>

\* object.with_cfrag(&cfrag) on any CapsuleWithFrags made so far.
CapsuleWithFragsWithCFrag ==
    /\ pc = "with_cfrag"
    /\ Len(objects) < MaxObjects
    /\ \E k \in 1 .. Len(objects), i \in 1 .. Len(cfrags) :
          /\ objects' = Append(objects, CapsuleWithFrags_with_cfrag(objects[k], cfrags[i]))
          /\ call_args' = Append(call_args, [self |-> k, cfrag |-> cfrags[i]])
    /\ UNCHANGED <<hk, pc, delegating_privkey, kemVars, out, checked, keyVars, fragVars>>

NextWasm ==
    \/ SourceEncrypt
    \/ Delegate
    \/ ProxiesReencrypt
    \/ CapsuleWithCFrag
    \/ CapsuleWithFragsWithCFrag

SpecWasm == InitWasm /\ [][NextWasm]_vars

\* C29: after capsule.with_cfrag(c1) and then with_cfrag(c2), ...,
\* with_cfrag(cn), each on the object the call before returned, the last
\* object holds the capsule and exactly the list c1, ..., cn in the order of
\* the calls, a fragment passed twice being held twice; and every object,
\* those with_cfrag was called on included, still holds the list of the calls
\* that made it.
C29_WithCFragAccumulates ==
    pc = "with_cfrag" =>
        LET RECURSIVE ChainArgs(_)
            ChainArgs(k) == IF call_args[k].self = 0 THEN <<call_args[k].cfrag>>
                            ELSE Append(ChainArgs(call_args[k].self), call_args[k].cfrag)
        IN /\ Len(objects) = Len(call_args)
           /\ \A k \in 1 .. Len(objects) :
                 /\ objects[k].capsule = Capsule_to_bytes(capsule)
                 /\ objects[k].cfrags = ChainArgs(k)

C29_Witness ==
    /\ pc = "with_cfrag"
    /\ Len(objects) >= 3
    /\ call_args[2].self = 1
    /\ call_args[3].self = 2
    /\ Len(objects[3].cfrags) = 3
    /\ objects[3].cfrags[1] = objects[3].cfrags[3]
    /\ objects[3].cfrags[1] # objects[3].cfrags[2]
    /\ Len(objects[1].cfrags) = 1

=============================================================================
